---- MODULE Spec2Model ----
(***************************************************************************)
(* A model of track: the Link entity, the Spider crawl loop, the Mirror    *)
(* bookkeeping the loop drives, and the CLI rule engine.                    *)
(*                                                                         *)
(* Spec       the spider: Spider.add, Spider.loop, Spider.process_one,     *)
(*            Mirror.finish over a small fixed web.                        *)
(* RuleSpec   the rule engine: Script.main building CLIRules from rule     *)
(*            strings and CLIRules._apply_rules on a link.                  *)
(***************************************************************************)
EXTENDS Integers, Sequences, FiniteSets, TLC

(* ------------------------------ bounds --------------------------------- *)

\* Spider.add calls made by the driver.
MaxSeeds == 2
\* Links deeper than this in the discovery chain are not taken from the queue.
MaxDepth == 2
\* No link is taken from the queue once an endpoint has had this many requests.
MaxRequests == 8
\* Link.resolve and Link.retry are called at most this often on one link.
MaxCalls == 3

(* ------------------------- program constants --------------------------- *)

\* Spider.max_retries
max_retries == 5

(* ------------------------------- URLs ---------------------------------- *)

\* A URL string is modelled by its parts: scheme, host+path ("page") and
\* fragment.  The page "bad" stands for every string urlnorm.norm rejects.
Pages == {"a", "b", "c"}
Schemes == {"http", "https"}
Fragments == {"", "f"}

Url(scheme, page, frag) == [scheme |-> scheme, page |-> page, frag |-> frag]

Http(page) == Url("http", page, "")
Https(page) == Url("https", page, "")
BadUrl == Url("http", "bad", "")

\* urlnorm.norm raises InvalidUrl on these.
InvalidUrl(url) == url.page \notin Pages

\* urllib.parse.urldefrag: (url without fragment, fragment)
urldefrag(url) == <<[url EXCEPT !.frag = ""], url.frag>>

\* urlparse(...).netloc of a page
netloc(url) == IF url.page = "c" THEN "example.de" ELSE "example.org"

\* What a request is sent to: the fragment never reaches the server.
Endpoint(url) == [url EXCEPT !.frag = ""]
Endpoints == {Url(s, p, "") : s \in Schemes, p \in Pages}

(* ------------------------------- Link ---------------------------------- *)

None == [none |-> TRUE]
False == [false |-> TRUE]

\* Link.set_previous: (root, depth, domain_depth) derived from previous.
Link_set_previous(original_url, previous) ==
    IF previous # None
    THEN [root |-> previous.root,
          depth |-> previous.depth + 1,
          domain_depth |-> IF netloc(original_url) # netloc(previous.original_url)
                           THEN 0 ELSE previous.domain_depth + 1]
    ELSE [root |-> original_url, depth |-> 0, domain_depth |-> 0]

\* Link.__init__ for a url urlnorm accepts.  root is kept as the root
\* link's original_url; follows counts the calls of rules.follow on this
\* object and redirect_of is the link whose redirect created this one
\* (both are instrumentation).
Link(url, previous, info) ==
    LET original_url == url
        defragged == urldefrag(original_url)
        https == original_url.scheme = "https"
        sp == Link_set_previous(original_url, previous)
    IN  [original_url |-> original_url,
         url |-> IF https THEN [defragged[1] EXCEPT !.scheme = "http"]
                 ELSE defragged[1],
         lossy_url_data |-> IF https THEN [protocol |-> "https"]
                            ELSE [fragment |-> defragged[2]],
         previous |-> previous,
         root |-> sp.root,
         depth |-> sp.depth,
         domain_depth |-> sp.domain_depth,
         info |-> info,
         response |-> None,
         exception |-> FALSE,
         retries |-> 0,
         follows |-> 0,
         redirect_of |-> None]

\* A reference to a link as its children hold it: the fields set at
\* construction (the runtime fields are never read through previous).
Ref(link) ==
    [link EXCEPT !.response = None, !.exception = FALSE, !.retries = 0,
                 !.follows = 0, !.redirect_of = None]

\* Link.retry
Link_retry(link) ==
    [link EXCEPT !.retries = link.retries + 1, !.exception = FALSE,
                 !.response = None]

Info(source, inline, dnf) ==
    [source |-> source, inline |-> inline, do_not_follow |-> dnf]

\* A (url, options) pair as the parsers yield it.
Found(url, inline, dnf) == [url |-> url, opts |-> Info("none", inline, dnf)]

(* ------------------------------ the web -------------------------------- *)

\* What the server behind an endpoint answers.  kind "down" is a
\* connection-level failure (requests raises ConnectionError / Timeout),
\* kind "flaky" a server that a connection sometimes reaches and sometimes
\* does not; etag "" is a response without an ETag header.
Page(status, links, etag) ==
    [kind |-> "http", status |-> status, location |-> None,
     links |-> links, etag |-> etag]
Redirecting(status, location) ==
    [kind |-> "http", status |-> status, location |-> location,
     links |-> <<>>, etag |-> ""]
Down ==
    [kind |-> "down", status |-> 0, location |-> None, links |-> <<>>,
     etag |-> ""]
Flaky(answer) == [answer EXCEPT !.kind = "flaky"]

\* a: links to b (once plainly, once as a form action), and to an invalid
\* url; b links back to a over https as a requisite; c is an error page.
WebPlain ==
    [e \in Endpoints |->
        CASE e = Http("a") ->
                Page(200, <<Found(Http("b"), FALSE, FALSE),
                            Found(Url("http", "b", "f"), FALSE, TRUE),
                            Found(BadUrl, FALSE, FALSE)>>, "etag-a")
          [] e = Http("b") ->
                Page(200, <<Found(Url("https", "a", "f"), TRUE, FALSE)>>, "")
          [] e = Http("c") ->
                Page(404, <<Found(Http("a"), FALSE, FALSE)>>, "")
          [] OTHER -> Down]

\* a -> b -> c#f, c links back to a.
WebChain ==
    [e \in Endpoints |->
        CASE e = Http("a") -> Redirecting(302, Http("b"))
          [] e = Http("b") -> Redirecting(301, Url("http", "c", "f"))
          [] e = Http("c") ->
                Page(200, <<Found(Http("a"), FALSE, FALSE)>>, "")
          [] OTHER -> Down]

\* a redirects to its https twin, which answers; c redirects to itself
\* (with a fragment); b cannot be connected to.
WebSelf ==
    [e \in Endpoints |->
        CASE e = Http("a") -> Redirecting(301, Https("a"))
          [] e = Https("a") -> Page(200, <<>>, "")
          [] e = Http("c") -> Redirecting(302, Url("http", "c", "f"))
          [] OTHER -> Down]

\* a links to c; c, not always reachable, redirects to b, which redirects
\* back to a.
WebBack ==
    [e \in Endpoints |->
        CASE e = Http("a") ->
                Page(200, <<Found(Http("c"), TRUE, FALSE)>>, "etag-a")
          [] e = Http("b") -> Redirecting(302, Http("a"))
          [] e = Http("c") -> Flaky(Redirecting(301, Http("b")))
          [] OTHER -> Down]

\* a and b link to each other; c redirects to a host that is down.
WebCycle ==
    [e \in Endpoints |->
        CASE e = Http("a") ->
                Page(200, <<Found(Http("b"), FALSE, FALSE)>>, "etag-a")
          [] e = Http("b") ->
                Page(200, <<Found(Http("a"), FALSE, FALSE),
                            Found(Http("c"), FALSE, FALSE)>>, "etag-b")
          [] e = Http("c") -> Redirecting(302, Https("a"))
          [] OTHER -> Down]

Webs == {WebPlain, WebChain, WebSelf, WebBack, WebCycle}

(* ------------------------------- state --------------------------------- *)

VARIABLES
    web,            \* the servers: Endpoints -> what each answers
    link_queue,     \* Spider._link_queue; index 1 is the left end
    known_urls,     \* Spider._known_urls
    mirror,         \* the Mirror's maps
    pc,             \* the driver: "start", "setup", "loop", "done", and
                    \* "rule-error", "crashed", "aborted" for the runs that fail
    seeds,          \* number of Spider.add calls so far
    requests,       \* requests sent, per endpoint (the test adapter's counter)
    last,           \* what the last process_one did (events, calls, ...)
    arguments,      \* the argparse namespace Script.main works from
    rules,          \* the CLIRules instance: the parsed rule lists
    verdict         \* the last call of CLIRules.follow / save / stop

vars == <<web, link_queue, known_urls, mirror, pc, seeds, requests, last,
          arguments, rules, verdict>>

(* ------------------------------ helpers -------------------------------- *)

\* dict[k] = v
Put(f, k, v) == [x \in DOMAIN f \cup {k} |-> IF x = k THEN v ELSE f[x]]

\* dict.get(k, default)
Get(f, k, default) == IF k \in DOMAIN f THEN f[k] ELSE default

EmptyDict == [x \in {} |-> None]

\* Variant of appendleft: the link is put at the end links are popped from.
appendleft_right(queue, x) == queue \o <<x>>

\* deque.appendleft / deque.append
appendleft(queue, x) == <<x>> \o queue
append(queue, x) == queue \o <<x>>

\* Counter.update for a sequence of endpoints
RECURSIVE Counted(_, _)
Counted(counter, sent) ==
    IF sent = <<>> THEN counter
    ELSE Counted([counter EXCEPT ![Head(sent)] = @ + 1], Tail(sent))

(* ------------------------------ network -------------------------------- *)

\* Session.resolve_redirects over the web w, from the response of endpoint
\* e: the responses of the hops that follow, the requests sent for them and
\* how it ended.  The servers are deterministic, so a chain that comes back
\* to an endpoint it has visited never ends and exceeds the session's
\* redirect limit.  A hop keeps the url of its Location header.
RECURSIVE resolve_redirects(_, _, _)
resolve_redirects(w, e, seen) ==
    IF w[e].status \notin {301, 302}
    THEN [error |-> "none", hops |-> <<>>, sent |-> <<>>]
    ELSE LET next == Endpoint(w[e].location)
         IN  IF next \in seen
             THEN [error |-> "TooManyRedirects", hops |-> <<>>, sent |-> <<>>]
             ELSE IF w[next].kind = "down"
             THEN [error |-> "ConnectionError", hops |-> <<>>, sent |-> <<next>>]
             ELSE LET rest == resolve_redirects(w, next, seen \cup {next})
                  IN  [error |-> rest.error,
                       hops |-> <<[url |-> w[e].location,
                                   status_code |-> w[next].status]>> \o rest.hops,
                       sent |-> <<next>> \o rest.sent]

\* Response.ok, which also is the truth value of a Response
ok(response) == response.status_code < 400

\* bool(response) for what Link.response can hold
Truthy(response) ==
    /\ response # None
    /\ response # False
    /\ ok(response)

\* DefaultRules.configure_request: validators go out with the request when
\* the mirror holds an etag for the url
DefaultRules_configure_request(link) ==
    /\ link.url \in DOMAIN mirror.url_info
    /\ mirror.url_info[link.url].etag # ""

\* Link.resolve(spider, type).  connects: the connection to the link's own
\* server succeeds; not_modified: the request carries validators and the
\* server finds the page unchanged.  Returns the link with its cache
\* filled, the requests sent, and whether the call raised (AttributeError
\* on a cached False).
Link_resolve(link, type, connects, not_modified) ==
    LET cached == [link |-> link, sent |-> <<>>, raised |-> FALSE]
        method == IF type = "full" THEN "GET" ELSE "HEAD"
        e == link.url
        failed(exception, sent) ==
            [link |-> [link EXCEPT !.response = False, !.exception = exception],
             sent |-> sent, raised |-> FALSE]
    IN  IF (Truthy(link.response) /\ ~ok(link.response)) \/ link.exception
        THEN cached
        ELSE IF link.response = False
        THEN [cached EXCEPT !.raised = TRUE]
        ELSE IF link.response # None
                /\ (link.response.method # "HEAD" \/ type = "head")
        THEN cached
        ELSE IF web[e].kind = "down" \/ (web[e].kind = "flaky" /\ ~connects)
        THEN failed(TRUE, <<e>>)
        ELSE LET redirects == resolve_redirects(web, e, {e})
                 sent == <<e>> \o redirects.sent
                 is304 == /\ web[e].status = 200
                          /\ DefaultRules_configure_request(link)
                          /\ not_modified
             IN  IF redirects.error = "TooManyRedirects"
                 THEN failed(FALSE, sent)
                 ELSE IF redirects.error = "ConnectionError"
                 THEN failed(TRUE, sent)
                 ELSE [link |->
                          [link EXCEPT !.response =
                              [status_code |-> IF is304 THEN 304 ELSE web[e].status,
                               url |-> e,
                               method |-> method,
                               redirects |-> redirects.hops,
                               links |-> IF is304 THEN <<>> ELSE web[e].links,
                               etag |-> web[e].etag]],
                       sent |-> sent, raised |-> FALSE]

(* ------------------------------- Mirror -------------------------------- *)

\* os.path.splitext of the path of a url: http://example.org/b.htm is the
\* one url with an extension in its path.
splitext(page) == IF page = "b.htm" THEN <<"b", ".htm">> ELSE <<page, "">>

\* Mirror.get_filename, made safe by safe_filename: host, path and, for a
\* path without extension, the extension guessed for text/html.
Mirror_get_filename(response) ==
    LET name(parts) == <<netloc(response.url), parts[1],
                         IF parts[2] = "" THEN ".htm" ELSE parts[2]>>
    IN  name(splitext(response.url.page))

\* os.path.relpath(local_filename, start) for two files of the mirror,
\* start being the directory (the host) of the file that holds the link
relpath(local_filename, start) ==
    IF local_filename[1] = start
    THEN <<local_filename[2], local_filename[3]>>
    ELSE <<"..">> \o local_filename

\* What a link in a stored file reads: an absolute url, or what the
\* conversion wrote for a local file, './' + rel_link, with '#' and the
\* fragment behind it when there is one.
Absolute(url) == [local |-> FALSE, url |-> url, path |-> <<>>, fragment |-> ""]
LocalLink(rel_link, fragment) ==
    [local |-> TRUE, url |-> None, path |-> rel_link, fragment |-> fragment]

\* response.content: the links of the page as the server wrote them
Content(links) == [i \in DOMAIN links |-> Absolute(links[i].url)]

\* Mirror._insert_into_url_usage: url becomes a referrer of every link
\* found, under the link url as it was found.
Mirror_insert_into_url_usage(url_usage, url, links) ==
    LET found == {links[i].url : i \in DOMAIN links}
    IN  [k \in DOMAIN url_usage \cup found |->
            Get(url_usage, k, {}) \cup (IF k \in found THEN {url} ELSE {})]

\* The url_usage Mirror.__init__ builds from a stored url_info.
RECURSIVE url_usage_of(_, _)
url_usage_of(url_info, urls) ==
    IF urls = {} THEN EmptyDict
    ELSE LET url == CHOOSE u \in urls : TRUE
         IN  Mirror_insert_into_url_usage(url_usage_of(url_info, urls \ {url}),
                                   url, url_info[url].links)

\* Mirror.__init__ over the maps and files a previous run left on disk.
\* raised is the exception the last call of a method ended with.
Mirror_init(stored_urls, url_info, files, write_at_once, convert_links) ==
    [write_at_once |-> write_at_once,
     convert_links |-> convert_links,
     stored_urls |-> stored_urls,
     url_info |-> url_info,
     encountered_urls |-> EmptyDict,
     redirects |-> EmptyDict,
     url_usage |-> url_usage_of(url_info, DOMAIN url_info),
     files |-> files,
     raised |-> "none"]

\* Variant of redirect_target_file: a redirect leads to no file.
redirect_target_file_none(url_database, redir) == None

\* Variant of redirect_target_file: only a permanent redirect leads to
\* the file of its target.
redirect_target_file_permanent(url_database, redir) ==
    IF redir[1] = 301 THEN Get(url_database, redir[2], None) ELSE None

\* replace_link, for a url with the known redirect (redir_code,
\* redir_url): "if redir_url in url_database: local_filename =
\* url_database[redir_url]", whatever redir_code is.
redirect_target_file(url_database, redir) ==
    Get(url_database, redir[2], None)

\* The url the parser hands to the replacer for a link that a previous
\* pass made local: './' + rel_link, absolutized against the url of the
\* page, whose directory is the directory of its file.  './b.htm' in a
\* page of example.org is http://example.org/b.htm.
urljoin_local(href) ==
    Url("http",
        IF Len(href.path) = 2 THEN href.path[1] \o href.path[2]
        ELSE href.path[2] \o "/" \o href.path[3] \o href.path[4],
        href.fragment)

\* replace_link of Mirror._convert_links_in_file: what the link href of
\* file is replaced with (None: nothing), or the InvalidUrl that Link()
\* raises.  A link that already is local is looked up under the url it
\* resolves to.
Mirror_replace_link(m, file, href) ==
    LET url_database == m.encountered_urls
        \* the branches behind the lookups, redir being the
        \* (redir_code, redir_url) found, or (0, None)
        rewrite(link, local_filename, redir) ==
            IF local_filename # None
            THEN LocalLink(relpath(local_filename, file[1]),
                           IF "fragment" \in DOMAIN link.lossy_url_data
                           THEN link.lossy_url_data.fragment ELSE "")
            ELSE IF redir[2] # None /\ redir[1] = 301
            THEN Absolute(redir[2])
            ELSE IF link.url \in DOMAIN m.url_usage THEN Absolute(link.url)
            ELSE None
        lookup(link) ==
            IF link.url \in DOMAIN url_database
            THEN rewrite(link, url_database[link.url], <<0, None>>)
            ELSE IF link.url \notin DOMAIN m.redirects
            THEN rewrite(link, None, <<0, None>>)
            ELSE rewrite(link,
                         redirect_target_file(url_database, m.redirects[link.url]),
                         m.redirects[link.url])
    IN  IF href.local
        THEN [raised |-> "none",
              new_url |-> lookup(Link(urljoin_local(href), None,
                                      Info("none", FALSE, FALSE)))]
        ELSE IF InvalidUrl(href.url)
        THEN [raised |-> "InvalidUrl", new_url |-> None]
        ELSE [raised |-> "none",
              new_url |-> lookup(Link(href.url, None, Info("none", FALSE, FALSE)))]

\* The method of the parser that _convert_links_in_file calls: every link
\* of the document is handed to the replacer and is replaced by what the
\* replacer returns, unless that is empty.  replaced[i] is what the
\* replacer returns for the link i.
Parser_replace_links(content, replaced) ==
    LET set(old, new_url) == IF new_url # None THEN new_url ELSE old
    IN  [i \in DOMAIN content |-> set(content[i], replaced[i].new_url)]

\* Mirror._convert_links_in_file; every file of the model is text/html.
\* Opening a file that was deleted raises; an exception of the replacer
\* leaves the method before the file is written.
Mirror_convert_links_in_file(m, file, url) ==
    LET content == m.files[file]
        replace_link(href) == Mirror_replace_link(m, file, href)
    IN  IF file \notin DOMAIN m.files
        THEN [m EXCEPT !.raised = "FileNotFoundError"]
        ELSE IF \E i \in DOMAIN content : replace_link(content[i]).raised # "none"
        THEN [m EXCEPT !.raised = "InvalidUrl"]
        ELSE [m EXCEPT !.files[file] =
                  Parser_replace_links(content,
                                       [i \in DOMAIN content |->
                                           replace_link(content[i])])]

\* The elements of a set, one after the other
RECURSIVE in_turn(_)
in_turn(set) ==
    IF set = {} THEN <<>>
    ELSE LET first == CHOOSE x \in set : TRUE
         IN  <<first>> \o in_turn(set \ {first})

\* Variant of files_to_process: every encountered url, whatever for_url is.
files_to_process_all(m, for_url) == in_turn(DOMAIN m.encountered_urls)

\* files_to_process of Mirror._convert_links: the urls whose files are
\* converted, all encountered ones or for_url and the encountered urls
\* among its referrers.
files_to_process(m, for_url) ==
    IF for_url = None
    THEN in_turn(DOMAIN m.encountered_urls)
    ELSE <<for_url>>
            \o in_turn({u \in Get(m.url_usage, for_url, {}) :
                           u \in DOMAIN m.encountered_urls})

\* The loop of Mirror._convert_links over the urls from the i-th on; an
\* exception ends it.
RECURSIVE convert_from(_, _, _)
convert_from(m, urls, i) ==
    IF i > Len(urls) \/ m.raised # "none" THEN m
    ELSE convert_from(
            Mirror_convert_links_in_file(m, m.encountered_urls[urls[i]], urls[i]),
            urls, i + 1)

\* Mirror._convert_links
Mirror_convert_links(m, for_url) ==
    IF ~m.convert_links THEN m
    ELSE convert_from(m, files_to_process(m, for_url), 1)

\* Mirror.add
Mirror_add(m, link, response) ==
    LET rel_filename == Mirror_get_filename(response)
        url_info == [mimetype |-> "text/html",
                     etag |-> response.etag,
                     links |-> response.links]
        added == [m EXCEPT
            !.raised = "none",
            !.files = Put(m.files, rel_filename, Content(response.links)),
            !.url_info = Put(m.url_info, response.url, url_info),
            !.encountered_urls = Put(m.encountered_urls, response.url, rel_filename),
            !.stored_urls = Put(m.stored_urls, response.url,
                                Get(m.stored_urls, response.url, {})
                                    \cup {rel_filename}),
            !.url_usage = Mirror_insert_into_url_usage(m.url_usage, link.url,
                                                url_info.links)]
    IN  IF m.write_at_once THEN Mirror_convert_links(added, response.url)
        ELSE added

\* Variant of Mirror_encounter_url: the url is registered without the
\* assertion.
Mirror_encounter_url_unchecked(m, link, filename) ==
    [m EXCEPT !.raised = "none",
              !.encountered_urls = Put(m.encountered_urls, link.url, filename)]

\* Mirror.encounter_url, which asserts that the mirror has a file of the
\* url; the file kept is any one of the stored ones.
Mirror_encounter_url(m, link, filename) ==
    IF link.url \notin DOMAIN m.stored_urls
    THEN [m EXCEPT !.raised = "AssertionError"]
    ELSE [m EXCEPT !.raised = "none",
                   !.encountered_urls = Put(m.encountered_urls, link.url, filename)]

\* Mirror.add_redirect
Mirror_add_redirect(m, link, target_link, code) ==
    [m EXCEPT !.raised = "none",
              !.redirects = Put(m.redirects, link.url, <<code, target_link.url>>)]

\* Mirror.finish
Mirror_finish(m) == Mirror_convert_links([m EXCEPT !.raised = "none"], None)

\* del d[k]
Del(f, k) == [x \in DOMAIN f \ {k} |-> f[x]]

\* The loop of Mirror.delete_unencountered over the stored urls from the
\* i-th on, then the regeneration of url_usage.  A stored set of file
\* names never equals the one name encountered_urls holds, so the second
\* branch is taken for every encountered url.  os.unlink of a file that
\* is no longer there raises, which ends the method.
RECURSIVE delete_from(_, _, _)
delete_from(m, urls, i) ==
    IF i > Len(urls)
    THEN [m EXCEPT !.url_usage = url_usage_of(m.url_info, DOMAIN m.url_info)]
    ELSE LET unlink(pruned, files_to_delete) ==
                 IF files_to_delete \subseteq DOMAIN m.files
                 THEN delete_from(
                         [pruned EXCEPT !.files =
                             [f \in DOMAIN m.files \ files_to_delete |-> m.files[f]]],
                         urls, i + 1)
                 ELSE [pruned EXCEPT !.raised = "FileNotFoundError"]
             step(url) ==
                 IF url \notin DOMAIN m.encountered_urls
                 THEN unlink([m EXCEPT !.stored_urls = Del(@, url),
                                       !.url_info = Del(@, url)],
                             m.stored_urls[url])
                 ELSE unlink([m EXCEPT !.stored_urls[url] =
                                           {m.encountered_urls[url]}],
                             m.stored_urls[url] \ {m.encountered_urls[url]})
         IN  step(urls[i])

\* Mirror.delete_unencountered over the shelves of a mirror directory,
\* whose keys are listed before the loop begins.
Mirror_delete_unencountered(m) ==
    delete_from([m EXCEPT !.raised = "none"], in_turn(DOMAIN m.stored_urls), 1)

\* The mirror directories a run can start from: a fresh one, and one in
\* which a previous run stored page a with two links.
StoredLinks == <<Found(Http("c"), FALSE, FALSE), Found(Http("b"), TRUE, FALSE)>>
FreshMirror == Mirror_init(EmptyDict, EmptyDict, EmptyDict, TRUE, TRUE)
StoredMirror ==
    Mirror_init([u \in {Http("a")} |-> {<<"example.org", "a", ".htm">>}],
                [u \in {Http("a")} |->
                    [mimetype |-> "text/html", etag |-> "etag-a",
                     links |-> StoredLinks]],
                [f \in {<<"example.org", "a", ".htm">>} |-> Content(StoredLinks)],
                TRUE, TRUE)

\* The mirror directory of a previous run that stored
\* http://example.org/b.htm, a page that links to itself, in the file that
\* http://example.org/b is stored in as well.
TwinUrl == Http("b.htm")
TwinMirror ==
    LET stored(file) ==
            Mirror_init([u \in {TwinUrl} |-> {file}],
                        [u \in {TwinUrl} |->
                            [mimetype |-> "text/html", etag |-> "",
                             links |-> <<Found(TwinUrl, FALSE, FALSE)>>]],
                        [f \in {file} |->
                            Content(<<Found(TwinUrl, FALSE, FALSE)>>)],
                        TRUE, TRUE)
    IN  stored(Mirror_get_filename([url |-> TwinUrl]))

\* The runs considered: every web with a fresh mirror, and the webs that
\* still serve page a with the mirror of the previous run.
Worlds ==
    {<<w, FreshMirror>> : w \in Webs}
        \cup {<<WebPlain, StoredMirror>>, <<WebCycle, StoredMirror>>}

(* ------------------------------- Spider -------------------------------- *)

\* Variant of Spider_add_internal: a url waiting in the queue is refused
\* like a known one.
Spider_add_internal_queued(queue, known, url, previous, opts) ==
    IF InvalidUrl(url)
    THEN [queue |-> queue, result |-> "None"]
    ELSE LET link == Link(url, previous, opts)
         IN  IF link.url \in known
                \/ \E i \in DOMAIN queue : queue[i].url = link.url
             THEN [queue |-> queue, result |-> "False"]
             ELSE [queue |-> appendleft(queue, link), result |-> "True"]

\* Spider._add: (queue, result).  result is what _add returns: "None" for
\* an invalid url, "False" for a known one, "True" when the link was queued.
Spider_add_internal(queue, known, url, previous, opts) ==
    IF InvalidUrl(url)
    THEN [queue |-> queue, result |-> "None"]
    ELSE LET link == Link(url, previous, opts)
         IN  IF link.url \in known
             THEN [queue |-> queue, result |-> "False"]
             ELSE [queue |-> appendleft(queue, link), result |-> "True"]

\* The loop over the links of a page at the end of Spider._process_link:
\* every (url, options) goes to _add with the page's link as previous.
RECURSIVE follow_up(_, _, _, _)
follow_up(acc, known, found, previous) ==
    IF found = <<>> THEN acc
    ELSE LET r == Spider_add_internal(acc.queue, known, Head(found).url, previous,
                              Head(found).opts)
         IN  follow_up([queue |-> r.queue,
                        offered |-> Append(acc.offered, Head(found)),
                        num_links_total |-> acc.num_links_total + 1,
                        num_links_followed |->
                            acc.num_links_followed
                                + (IF r.result = "True" THEN 1 ELSE 0)],
                       known, Tail(found), previous)

\* Variant of is_duplicate: the known urls are not consulted.
is_duplicate_never(link, known) == FALSE

\* "Do not bother to process the same url twice"
is_duplicate(link, known) == link.url \in known

\* The retry test of a connection-level failure
retries_left(link) == link.retries <= max_retries

\* Variant of redirect_target: the first hop instead of the last.
redirect_target_first(response) == response.redirects[1].url

\* The url the link made for a redirected response points at
redirect_target(response) == response.redirects[Len(response.redirects)].url

\* Variant of redirect_link: the target is made a child of the link that
\* was redirected.
redirect_link_child(link, target) ==
    [Link(target, Ref(link), link.info) EXCEPT !.redirect_of = Ref(link)]

\* Variant of redirect_link: the new Link is made without the info of the
\* link that was redirected.
redirect_link_plain(link, target) ==
    [Link(target, link.previous, Info("none", FALSE, FALSE))
        EXCEPT !.redirect_of = Ref(link)]

\* The link made for the target of a redirect:
\* Link(response.redirects[-1].url, previous=link.previous, **link.info)
redirect_link(link, target) ==
    [Link(target, link.previous, link.info) EXCEPT !.redirect_of = Ref(link)]

\* Variant of is_http_error: only server errors count.
is_http_error_5xx(response) == response.status_code >= 500

\* "Do not follow errors"
is_http_error(response) == response.status_code >= 400

\* Variant of add_to_known_list: a denied save marks the url known too.
add_to_known_always(skip_download, response_was_304, saved) == TRUE

\* add_to_known_list as the save step leaves it; saved is what rules.save
\* answered when it was asked
add_to_known_list(skip_download, response_was_304, saved) ==
    IF ~skip_download /\ ~response_was_304 THEN saved ELSE TRUE

\* Variant of follow_up_links: always the links parsed from the response.
follow_up_links_parsed(m, link, skip_download, response_was_304) ==
    IF link.response \in {None, False} THEN <<>> ELSE link.response.links

\* The (url, options) pairs the follow-up loop goes through
follow_up_links(m, link, skip_download, response_was_304) ==
    IF skip_download \/ response_was_304
    THEN m.url_info[link.url].links
    ELSE link.response.links

\* What one call of Spider._process_link has done so far.
\*   link        the link, with its runtime fields as the call leaves them
\*   queue       the link queue
\*   add_again   the value returned (truthy: the caller re-queues the link)
\*   raised      an exception escaped the call
\*   events      the Events notifications sent, in order
\*   calls       the rules hooks and Mirror methods called, in order
\*   sent        the requests sent, in order
\*   parsed      a content parser was attached to the response
\*   offered     the (url, options) pairs handed to _add
Outcome(link, queue) ==
    [link |-> link, queue |-> queue, add_again |-> FALSE, raised |-> FALSE,
     events |-> <<>>, calls |-> <<>>, sent |-> <<>>,
     known_urls |-> known_urls, mirror |-> mirror,
     parsed |-> FALSE, offered |-> <<>>,
     num_links_total |-> 0, num_links_followed |-> 0]

Event(o, stage, key, value) ==
    [o EXCEPT !.events = Append(@, <<stage, key, value>>)]
Call(o, name) == [o EXCEPT !.calls = Append(@, name)]

\* Variant of StopAndFollowUp: the stop hook is reported, and the links of
\* the page are offered to _add all the same.
StopAndFollowUp_anyway(o, c, skip_download, response_was_304) ==
    LET link == o.link
        o1 == Call(o, "rules.stop")
        offer(found) ==
            LET r == follow_up([queue |-> o1.queue, offered |-> <<>>,
                                num_links_total |-> 0,
                                num_links_followed |-> 0],
                               o1.known_urls, found, Ref(link))
            IN  Event([o1 EXCEPT !.queue = r.queue, !.offered = r.offered],
                      "bail", "bail", IF c.stop THEN "true" ELSE "false")
    IN  IF (skip_download \/ response_was_304)
           /\ link.url \notin DOMAIN o1.mirror.url_info
        THEN [o1 EXCEPT !.raised = TRUE]
        ELSE offer(follow_up_links(o1.mirror, link, skip_download,
                                   response_was_304))

\* Spider._process_link from the stop hook on (spider.py 585-615)
StopAndFollowUp(o, c, skip_download, response_was_304) ==
    LET link == o.link
        o1 == Call(o, "rules.stop")
    IN  IF c.stop
        THEN Event(o1, "bail", "bail", "true")
        ELSE IF (skip_download \/ response_was_304)
                /\ link.url \notin DOMAIN o1.mirror.url_info
        THEN [o1 EXCEPT !.raised = TRUE]
        ELSE LET found == follow_up_links(o1.mirror, link, skip_download,
                                          response_was_304)
                 r == follow_up([queue |-> o1.queue, offered |-> <<>>,
                                 num_links_total |-> 0,
                                 num_links_followed |-> 0],
                                o1.known_urls, found, Ref(link))
             IN  Event([o1 EXCEPT !.queue = r.queue,
                                  !.offered = r.offered,
                                  !.num_links_total = r.num_links_total,
                                  !.num_links_followed = r.num_links_followed],
                       "bail", "bail", "false")

\* Spider._process_link from the parser on (spider.py 542-583): attach the
\* parser, save or register with the mirror, mark the url known.
SaveAndMark(o, c, skip_download, response_was_304) ==
    LET link == o.link
        response == IF skip_download THEN False ELSE link.response
        o1 == IF Truthy(response) /\ ~response_was_304
              THEN [o EXCEPT !.parsed = TRUE] ELSE o
        known(x, saved) ==
            IF add_to_known_list(skip_download, response_was_304, saved)
            THEN [x EXCEPT !.known_urls = @ \cup {link.url}] ELSE x
        saved(added) ==
            IF added.mirror.raised # "none"
            THEN [added EXCEPT !.raised = TRUE]
            ELSE StopAndFollowUp(
                    known(Event(added, "save", "saved", "true"), TRUE),
                    c, skip_download, response_was_304)
    IN  IF ~skip_download /\ ~response_was_304
        THEN IF c.save
             THEN saved([Call(Call(o1, "rules.save"), "mirror.add")
                            EXCEPT !.mirror = Mirror_add(@, link, response)])
             ELSE StopAndFollowUp(
                    known(Event(Call(o1, "rules.save"), "save", "saved", "false"),
                          FALSE),
                    c, skip_download, response_was_304)
        ELSE IF link.url \notin DOMAIN o1.mirror.stored_urls
             THEN [Call(o1, "mirror.encounter_url") EXCEPT !.raised = TRUE]
             ELSE StopAndFollowUp(
                    known([Call(o1, "mirror.encounter_url")
                              EXCEPT !.mirror = Mirror_encounter_url(@, link, c.file)],
                          FALSE),
                    c, skip_download, response_was_304)

\* Spider._process_link, the request (spider.py 491-535)
Download(o, c) ==
    LET r == Link_resolve(o.link, "full", c.connects, c.not_modified)
        link == r.link
        response == link.response
        o1 == [Call(o, "link.resolve") EXCEPT !.link = link, !.sent = r.sent]
    IN  IF r.raised
        THEN [o1 EXCEPT !.raised = TRUE]
        ELSE IF response = False
        THEN IF link.exception
             THEN IF retries_left(link)
                  THEN [Event([o1 EXCEPT !.link = Link_retry(link)],
                              "follow", "failed", "connect-error")
                           EXCEPT !.add_again = TRUE]
                  ELSE o1
             ELSE Event(o1, "follow", "failed", "redirect-error")
        ELSE IF response.redirects # <<>>
        THEN LET target == redirect_target(response)
                 redir_link == redirect_link(link, target)
             IN  IF InvalidUrl(target)
                 THEN [o1 EXCEPT !.raised = TRUE]
                 ELSE Event([Call(o1, "mirror.add_redirect") EXCEPT
                                !.queue = append(@, redir_link),
                                !.mirror = Mirror_add_redirect(@, link, redir_link,
                                                        response.status_code)],
                            "follow", "failed", "redirect")
        ELSE IF is_http_error(response)
        THEN Event(o1, "follow", "failed", "http-error")
        ELSE IF response.status_code = 304
        THEN SaveAndMark(Event(o1, "follow", "failed", "not-modified"),
                         c, FALSE, TRUE)
        ELSE SaveAndMark(Event(o1, "follow", "success", "true"),
                         c, FALSE, FALSE)

\* Spider._process_link(link) with the queue as process_one left it.  c
\* holds what the collaborators answer during the call: the rules hooks
\* (follow, skip_download, save, stop), whether the server finds the page
\* unmodified, and the stored file encounter_url keeps.
Spider_process_link(link, queue, c) ==
    LET o == Outcome(link, queue)
        asked == [Call(o, "rules.follow") EXCEPT !.link.follows = @ + 1]
        o1 == IF link.info.source # "user" THEN asked ELSE o
    IN  IF link.info.do_not_follow
        THEN Event(o, "follow", "skipped", "no-download")
        ELSE IF is_duplicate(link, known_urls)
        THEN Event(o, "follow", "skipped", "duplicate")
        ELSE IF link.info.source # "user" /\ ~c.follow
        THEN Event(asked, "follow", "skipped", "rule-deny")
        ELSE IF c.skip_download
        THEN SaveAndMark(Event(Call(o1, "rules.skip_download"),
                               "follow", "failed", "not-expired"),
                         c, TRUE, FALSE)
        ELSE Download(Call(o1, "rules.skip_download"), c)

\* The record kept of a process_one call: the link as it was taken, the
\* queue it was taken from, the known urls at that moment, and the outcome
\* of _process_link.
Record(taken, pending, o) ==
    [taken |-> taken, pending |-> pending, known_before |-> known_urls,
     link |-> o.link, add_again |-> o.add_again, raised |-> o.raised,
     events |-> o.events, calls |-> o.calls, sent |-> o.sent,
     parsed |-> o.parsed, offered |-> o.offered,
     num_links_total |-> o.num_links_total,
     num_links_followed |-> o.num_links_followed]

\* What the collaborators may answer while link is processed.  A hook
\* that is not reached for this link has one answer.
Answers(link) ==
    LET skipped == link.info.do_not_follow \/ is_duplicate(link, known_urls)
        One(b) == IF skipped THEN {b} ELSE BOOLEAN
    IN  [follow : IF link.info.source = "user" THEN {TRUE} ELSE One(TRUE),
         skip_download : One(FALSE),
         connects : IF web[link.url].kind = "flaky" THEN One(TRUE) ELSE {TRUE},
         not_modified : IF DefaultRules_configure_request(link)
                           /\ web[link.url].status = 200
                        THEN One(FALSE) ELSE {FALSE},
         save : One(TRUE),
         stop : One(FALSE),
         file : IF link.url \in DOMAIN mirror.stored_urls
                THEN mirror.stored_urls[link.url] ELSE {None}]

\* The urls the driver seeds the spider with, and the source it gives.
SeedUrls == {Http("a"), Url("https", "c", "f")}
Sources == {"user", "none"}

Init ==
    /\ \E world \in Worlds : web = world[1] /\ mirror = world[2]
    /\ link_queue = <<>>
    /\ known_urls = {}
    /\ pc = "setup"
    /\ seeds = 0
    /\ requests = [e \in Endpoints |-> 0]
    /\ last = Record(None, <<>>, Outcome(None, <<>>))
    /\ arguments = None
    /\ rules = None
    /\ verdict = None

\* Spider.add(url, source=...)
Spider_add ==
    /\ pc = "setup"
    /\ seeds < MaxSeeds
    /\ \E url \in SeedUrls, source \in Sources :
          link_queue' = appendleft(link_queue,
                                   Link(url, None, Info(source, FALSE, FALSE)))
    /\ seeds' = seeds + 1
    /\ UNCHANGED <<web, known_urls, mirror, pc, requests, last,
                   arguments, rules, verdict>>

\* Spider.loop is entered
Spider_loop ==
    /\ pc = "setup"
    /\ pc' = "loop"
    /\ UNCHANGED <<web, link_queue, known_urls, mirror, seeds, requests, last,
                   arguments, rules, verdict>>

\* Spider.process_one, as Spider.loop calls it while the queue is not empty
Spider_process_one ==
    /\ pc = "loop"
    /\ link_queue # <<>>
    /\ \A e \in Endpoints : requests[e] < MaxRequests
    /\ LET link == link_queue[Len(link_queue)]
           queue == SubSeq(link_queue, 1, Len(link_queue) - 1)
       IN  /\ link.depth <= MaxDepth
           /\ \E c \in Answers(link) :
                LET returns(o) ==
                        /\ link_queue' = IF o.add_again /\ ~o.raised
                                         THEN appendleft(o.queue, o.link)
                                         ELSE o.queue
                        /\ known_urls' = o.known_urls
                        /\ mirror' = o.mirror
                        /\ pc' = IF o.raised THEN "aborted" ELSE pc
                        /\ requests' = Counted(requests, o.sent)
                        /\ last' = Record(link, queue, o)
                IN  returns(Spider_process_link(link, queue, c))
    /\ UNCHANGED <<web, seeds, arguments, rules, verdict>>

\* Variant of Spider_loop_end: loop leaves its while loop and calls
\* mirror.finish while links are waiting.
Spider_loop_end_early ==
    /\ pc = "loop"
    /\ LET finished == Mirror_finish(mirror)
       IN  /\ mirror' = finished
           /\ pc' = IF finished.raised = "none" THEN "done" ELSE "aborted"
    /\ UNCHANGED <<web, link_queue, known_urls, seeds, requests, last,
                   arguments, rules, verdict>>

\* Spider.loop behind its while loop: the queue is empty, mirror.finish
\* is called and loop returns, or the exception of finish leaves it.
Spider_loop_end ==
    /\ pc = "loop"
    /\ link_queue = <<>>
    /\ LET finished == Mirror_finish(mirror)
       IN  /\ mirror' = finished
           /\ pc' = IF finished.raised = "none" THEN "done" ELSE "aborted"
    /\ UNCHANGED <<web, link_queue, known_urls, seeds, requests, last,
                   arguments, rules, verdict>>

Next ==
    \/ Spider_add
    \/ Spider_loop
    \/ Spider_process_one
    \/ Spider_loop_end

Spec == Init /\ [][Next]_vars

(* ---------------------------- rule engine ------------------------------ *)

\* Rules given on the command line.
MaxRules == 2

\* A string is the sequence of its characters.
Str_depth == <<"d", "e", "p", "t", "h">>
Str_requisite == <<"r", "e", "q", "u", "i", "s", "i", "t", "e">>
Str_size == <<"s", "i", "z", "e">>
Str_robots == <<"r", "o", "b", "o", "t", "s">>

\* AvailableTests with TestImpl's attribute looked up, for the tests
\* modelled: the name of the function a test name stands for.
AvailableTests ==
    [name \in {<<>>, Str_depth, Str_requisite, Str_size} |->
        CASE name = <<>> -> [fn |-> "default"]
          [] name = Str_depth -> [fn |-> "depth"]
          [] name = Str_requisite -> [fn |-> "requisite"]
          [] name = Str_size -> [fn |-> "size"]]

\* CLIRules.get_test
CLIRules_get_test(name) ==
    IF name \in DOMAIN AvailableTests THEN AvailableTests[name] ELSE None

\* The length of the longest prefix of stack whose characters are all in
\* (inside = TRUE) or all outside (inside = FALSE) of chars: the two
\* "while stack and stack[0] (not) in op_chars" loops.
RECURSIVE run_length(_, _, _)
run_length(stack, chars, inside) ==
    IF stack # <<>> /\ ((Head(stack) \in chars) <=> inside)
    THEN 1 + run_length(Tail(stack), chars, inside)
    ELSE 0

\* CLIRules._parse_rule: the parsed rule, or the exception raised.
CLIRules_parse_rule(rule) ==
    IF rule = <<>>
    THEN [raised |-> "IndexError", rule |-> None]
    ELSE IF rule[1] \notin {"+", "-"}
    THEN [raised |-> "RuleError", rule |-> None]
    ELSE LET action == rule[1]
             popped == Tail(rule)
             is_stop_action == popped # <<>> /\ popped[1] = action
             stack == IF is_stop_action THEN Tail(popped) ELSE popped
             op_chars == {"<", ">", "=", "~"}
             n == run_length(stack, op_chars, FALSE)
             test_name == SubSeq(stack, 1, n)
             test == CLIRules_get_test(test_name)
             rest == SubSeq(stack, n + 1, Len(stack))
             m == run_length(rest, op_chars, TRUE)
         IN  IF test = None
             THEN [raised |-> "RuleError", rule |-> None]
             ELSE [raised |-> "none",
                   rule |-> [action |-> action = "+",
                             is_stop_action |-> is_stop_action,
                             test |-> test,
                             op |-> SubSeq(rest, 1, m),
                             value |-> SubSeq(rest, m + 1, Len(rest))]]

\* list(map(self._parse_rule, strings)): the parsed rules, or the
\* exception the first string that fails raises.
RECURSIVE parse_rules(_)
parse_rules(strings) ==
    IF strings = <<>> THEN [raised |-> "none", rules |-> <<>>]
    ELSE LET first == CLIRules_parse_rule(Head(strings))
             others == parse_rules(Tail(strings))
         IN  IF first.raised # "none"
             THEN [raised |-> first.raised, rules |-> <<>>]
             ELSE IF others.raised # "none"
             THEN others
             ELSE [raised |-> "none", rules |-> <<first.rule>> \o others.rules]

\* CLIRules.__init__: follow, save and stop rules are parsed in this order.
CLIRules_init(namespace) ==
    LET follow == parse_rules(namespace.follow)
        save == parse_rules(namespace.save)
        stop == parse_rules(namespace.stop)
    IN  IF follow.raised # "none" THEN [raised |-> follow.raised, rules |-> None]
        ELSE IF save.raised # "none" THEN [raised |-> save.raised, rules |-> None]
        ELSE IF stop.raised # "none" THEN [raised |-> stop.raised, rules |-> None]
        ELSE [raised |-> "none",
              rules |-> [follow_rules |-> follow.rules,
                         save_rules |-> save.rules,
                         stop_rules |-> stop.rules]]

\* What a test returns: a bool or an int (both are numbers.Number), or the
\* exception it raises.
Returned(type, value) == [raised |-> "none", type |-> type, value |-> value]
Raised(exception) == [raised |-> exception, type |-> "none", value |-> 0]

\* TestImpl.default
TestImpl_default(link) == Returned("bool", TRUE)

\* Variant of TestImpl_requisite: the mirror is not asked.
TestImpl_requisite_inline(link, ctx_mirror) ==
    Returned("bool", link.info.inline /\ link.previous # None)

\* TestImpl.requisite; ctx['spider'].mirror is the mirror
TestImpl_requisite(link, ctx_mirror) ==
    IF ~link.info.inline THEN Returned("bool", FALSE)
    ELSE IF link.previous = None THEN Returned("bool", FALSE)
    ELSE IF link.previous.url \notin DOMAIN ctx_mirror.encountered_urls
    THEN Returned("bool", FALSE)
    ELSE Returned("bool", TRUE)

\* TestImpl.depth
TestImpl_depth(link) == Returned("int", link.depth)

\* TestImpl.size: its first statement calls link.resolve('head'), one
\* argument short of Link.resolve(self, spider, type); the raise of
\* Redirect for a redirected response behind it is not reached.
TestImpl_size(link) == Raised("TypeError")

\* test(*args) for the function CLIRules.get_test returned
call_test(test, link, ctx_mirror) ==
    CASE test.fn = "default" -> TestImpl_default(link)
      [] test.fn = "requisite" -> TestImpl_requisite(link, ctx_mirror)
      [] test.fn = "depth" -> TestImpl_depth(link)
      [] test.fn = "size" -> TestImpl_size(link)

UNITS == [G |-> 1000 * 1000 * 1000, M |-> 1000 * 1000, K |-> 1000]

\* str.upper on one character
upper(char) ==
    CASE char = "g" -> "G" [] char = "m" -> "M" [] char = "k" -> "K"
      [] OTHER -> char

Digits == <<"0", "1", "2", "3", "4", "5", "6", "7", "8", "9">>

\* float(user_value) for the strings modelled: a non-empty run of digits
\* is a number, anything else raises ValueError (ok = FALSE).
RECURSIVE to_float(_, _)
to_float(chars, acc) ==
    IF chars = <<>> THEN [ok |-> TRUE, number |-> acc]
    ELSE IF \E d \in DOMAIN Digits : Digits[d] = Head(chars)
    THEN to_float(Tail(chars),
                  10 * acc + (CHOOSE d \in DOMAIN Digits :
                                 Digits[d] = Head(chars)) - 1)
    ELSE [ok |-> FALSE, number |-> 0]

\* The values the operators compare: what a test returned (type bool,
\* int, str or NoneType) and the rule's value, a str until _norm makes
\* it a float or False.
Value(type, value) == [type |-> type, value |-> value]

\* isinstance(v, numbers.Number): bool is a subclass of int
is_number(v) == v.type \in {"bool", "int", "float"}

\* isinstance(v, str)
is_str(v) == v.type = "str"

\* The number a bool, int or float compares as (True is 1, False is 0)
as_number(v) ==
    IF v.type = "bool" THEN (IF v.value THEN 1 ELSE 0) ELSE v.value

\* The characters of the strings modelled, in the order of their code
\* points: str compares by code point.
CodePoints ==
    <<"*", "0", "1", "2", "3", "4", "5", "6", "7", "8", "9", "?",
      "G", "K", "M", "a", "b", "c", "f", "g", "k", "m", "o", "x">>

ord(char) == CHOOSE i \in DOMAIN CodePoints : CodePoints[i] = char

\* a < b for two str
RECURSIVE str_lt(_, _)
str_lt(a, b) ==
    IF b = <<>> THEN FALSE
    ELSE IF a = <<>> THEN TRUE
    ELSE IF Head(a) = Head(b) THEN str_lt(Tail(a), Tail(b))
    ELSE ord(Head(a)) < ord(Head(b))

\* a == b of Python: numbers by value (0 == False), str by characters,
\* None only equals None.
py_eq(a, b) ==
    IF is_number(a) /\ is_number(b) THEN as_number(a) = as_number(b)
    ELSE IF is_str(a) /\ is_str(b) THEN a.value = b.value
    ELSE a.type = "NoneType" /\ b.type = "NoneType"

\* a < b of Python, where the two types have an order
py_lt(a, b) ==
    IF is_number(a) /\ is_number(b) THEN as_number(a) < as_number(b)
    ELSE str_lt(a.value, b.value)

\* Whether a < b is defined (TypeError otherwise)
py_ordered(a, b) ==
    (is_number(a) /\ is_number(b)) \/ (is_str(a) /\ is_str(b))

\* fnmatch.fnmatch(name, pat) for patterns of literal characters, '*'
\* and '?'
RECURSIVE fnmatch(_, _)
fnmatch(name, pat) ==
    IF pat = <<>> THEN name = <<>>
    ELSE IF Head(pat) = "*"
    THEN \/ fnmatch(name, Tail(pat))
         \/ (name # <<>> /\ fnmatch(Tail(name), pat))
    ELSE /\ name # <<>>
         /\ Head(pat) = "?" \/ Head(pat) = Head(name)
         /\ fnmatch(Tail(name), Tail(pat))

\* OperatorImpl._norm: the user value as it is compared with system_value.
\* For a number it becomes a float, scaled by its unit, or False.
OperatorImpl_norm(system_value, user_value) ==
    IF ~is_number(system_value) THEN Value("str", user_value)
    ELSE LET has_unit == /\ user_value # <<>>
                         /\ upper(user_value[Len(user_value)]) \in DOMAIN UNITS
             digits == IF has_unit
                       THEN SubSeq(user_value, 1, Len(user_value) - 1)
                       ELSE user_value
             float == IF digits = <<>> THEN [ok |-> FALSE, number |-> 0]
                      ELSE to_float(digits, 0)
         IN  IF ~float.ok THEN Value("bool", FALSE)
             ELSE IF has_unit
             THEN Value("float",
                        float.number * UNITS[upper(user_value[Len(user_value)])])
             ELSE Value("float", float.number)

\* OperatorImpl._same(a, b): False counts as None on either side
OperatorImpl_same(a, b) ==
    LET a_none == a.type = "NoneType" \/ (a.type = "bool" /\ a.value = FALSE)
        b_none == b.type = "NoneType" \/ (b.type = "bool" /\ b.value = FALSE)
    IN  (a_none /\ b_none) \/ (~a_none /\ ~b_none)

\* What an operator returns, or the exception it raises
Passed(p) == [raised |-> "none", passes |-> p]
Failed(exception) == [raised |-> exception, passes |-> FALSE]

\* OperatorImpl.truth: bool(sys), behind "assert not user"
OperatorImpl_truth(sys, user) ==
    IF user # <<>> THEN Failed("AssertionError")
    ELSE Passed(CASE is_number(sys) -> as_number(sys) # 0
                  [] is_str(sys) -> sys.value # <<>>
                  [] OTHER -> FALSE)

\* OperatorImpl.equality
OperatorImpl_equality(sys, user) ==
    IF is_str(sys)
    THEN Passed(fnmatch(sys.value, user))
    ELSE LET normed == OperatorImpl_norm(sys, user)
         IN  Passed(OperatorImpl_same(sys, normed) /\ py_eq(sys, normed))

\* "cls._same(sys, user) and sys <op> user" of the ordered comparisons:
\* the order is only asked for when _same holds.
ordered(sys, user, op) ==
    LET normed == OperatorImpl_norm(sys, user)
        holds(a, b) == CASE op = "<" -> py_lt(a, b)
                         [] op = ">" -> py_lt(b, a)
                         [] op = ">=" -> ~py_lt(a, b)
                         [] op = "<=" -> ~py_lt(b, a)
    IN  IF ~OperatorImpl_same(sys, normed) THEN Passed(FALSE)
        ELSE IF ~py_ordered(sys, normed) THEN Failed("TypeError")
        ELSE Passed(holds(sys, normed))

\* OperatorImpl.smaller
OperatorImpl_smaller(sys, user) ==
    ordered(sys, user, "<")

\* OperatorImpl.larger
OperatorImpl_larger(sys, user) ==
    ordered(sys, user, ">")

\* OperatorImpl.larger_or_equal
OperatorImpl_larger_or_equal(sys, user) ==
    ordered(sys, user, ">=")

\* OperatorImpl.smaller_or_equal
OperatorImpl_smaller_or_equal(sys, user) ==
    ordered(sys, user, "<=")

\* Operators[op](test_result, value): whether the comparison passes, or
\* the KeyError of an operator that is not in Operators.
Operators(op, sys, value) ==
    CASE op = <<>> -> OperatorImpl_truth(sys, value)
      [] op = <<"=">> -> OperatorImpl_equality(sys, value)
      [] op = <<"<">> -> OperatorImpl_smaller(sys, value)
      [] op = <<">">> -> OperatorImpl_larger(sys, value)
      [] op = <<"<", "=">> -> OperatorImpl_smaller_or_equal(sys, value)
      [] op = <<">", "=">> -> OperatorImpl_larger_or_equal(sys, value)
      [] OTHER -> Failed("KeyError")

\* CLIRules._run_test
CLIRules_run_test(rule, link, ctx_mirror) ==
    LET test_result == call_test(rule.test, link, ctx_mirror)
    IN  IF test_result.raised # "none"
        THEN [raised |-> test_result.raised, passes |-> FALSE]
        ELSE Operators(rule.op, test_result, rule.value)

\* Variant of stops: a hard rule does not end the evaluation.
stops_never(rule) == FALSE

\* "if is_stop_action: break" for a rule that passed
stops(rule) == rule.is_stop_action

\* The loop of CLIRules._apply_rules from rule i on, result being the
\* result so far.
RECURSIVE apply_rules_from(_, _, _, _, _)
apply_rules_from(rule_list, i, result, link, ctx_mirror) ==
    IF i > Len(rule_list)
    THEN [raised |-> "none", result |-> result]
    ELSE LET rule == rule_list[i]
             test == CLIRules_run_test(rule, link, ctx_mirror)
         IN  IF test.raised = "Redirect"
             THEN apply_rules_from(rule_list, i + 1, TRUE, link, ctx_mirror)
             ELSE IF test.raised # "none"
             THEN [raised |-> test.raised, result |-> result]
             ELSE IF test.passes
             THEN IF stops(rule)
                  THEN [raised |-> "none", result |-> rule.action]
                  ELSE apply_rules_from(rule_list, i + 1, rule.action, link,
                                        ctx_mirror)
             ELSE apply_rules_from(rule_list, i + 1, result, link, ctx_mirror)

\* CLIRules.rule_default
rule_default == FALSE

\* CLIRules._apply_rules
CLIRules_apply_rules(rule_list, link, ctx_mirror) ==
    apply_rules_from(rule_list, 1, rule_default, link, ctx_mirror)

\* The rule strings tried on the command line:
\*   -  +  ++requisite  -requisite  +depth<=1  --depth>1  +size>1m
\*   +depth~1 (an operator that does not exist)
\*   +depth!=1 ('!' is not one of op_chars)
\*   requisite (no prefix)  +robots (no such test)  and the empty string
RuleStrings ==
    { <<"-">>,
      <<"+">>,
      <<"+", "+">> \o Str_requisite,
      <<"-">> \o Str_requisite,
      <<"+">> \o Str_depth \o <<"<", "=", "1">>,
      <<"-", "-">> \o Str_depth \o <<">", "1">>,
      <<"+">> \o Str_size \o <<">", "1", "m">>,
      <<"+">> \o Str_depth \o <<"~", "1">>,
      <<"+">> \o Str_depth \o <<"!", "=", "1">>,
      Str_requisite,
      <<"+">> \o Str_robots,
      <<>> }

\* Rule lists of one to MaxRules rules ('@follow' takes nargs='+').
RuleLists ==
    UNION {[1..n -> RuleStrings] : n \in 1..MaxRules}

\* Script.get_default_namesspace: the defaults of @follow, @save, @stop
DefaultNamespace ==
    [url |-> <<Http("a")>>,
     follow |-> << <<"-">>, <<"+">> \o Str_requisite >>,
     save |-> << <<"+">> >>,
     stop |-> << <<"-">> >>]

\* The command lines considered: the defaults with the follow rules
\* replaced, or with one save or stop rule given, and one or two urls.
Namespaces ==
    LET given == {[DefaultNamespace EXCEPT !.follow = list] : list \in RuleLists}
                 \cup {[DefaultNamespace EXCEPT !.save = <<rule>>] :
                            rule \in RuleStrings}
                 \cup {[DefaultNamespace EXCEPT !.stop = <<rule>>] :
                            rule \in RuleStrings}
    IN  given \cup {[ns EXCEPT !.url = <<Http("a"), Url("https", "c", "f")>>] :
                        ns \in given}

\* "for url in namespace.url: spider.add(url)"
RECURSIVE add_urls(_, _)
add_urls(queue, urls) ==
    IF urls = <<>> THEN queue
    ELSE add_urls(appendleft(queue, Link(Head(urls), None,
                                         Info("user", FALSE, FALSE))),
                  Tail(urls))

\* The links the rules are asked about: the seed, a requisite found on
\* it, a link found on that requisite, and a requisite given as a seed.
\* In WebBack the seed is a page, the other urls answer with redirects.
SeedLink == Link(Http("a"), None, Info("user", FALSE, FALSE))
RequisiteLink == Link(Http("b"), Ref(SeedLink), Info("none", TRUE, FALSE))
RuleLinks ==
    { SeedLink,
      RequisiteLink,
      Link(Http("c"), Ref(RequisiteLink), Info("none", FALSE, FALSE)),
      Link(Http("b"), None, Info("none", TRUE, FALSE)) }

RuleInit ==
    /\ web = WebBack
    /\ mirror \in {FreshMirror, StoredMirror}
    /\ link_queue = <<>>
    /\ known_urls = {}
    /\ pc = "start"
    /\ seeds = 0
    /\ requests = [e \in Endpoints |-> 0]
    /\ last = Record(None, <<>>, Outcome(None, <<>>))
    /\ arguments = None
    /\ rules = None
    /\ verdict = None

\* Script.main up to the call of spider.loop: the rules are built, the
\* spider is created and the urls are added; a RuleError is reported and
\* main returns, any other exception ends the program.
Script_main ==
    /\ pc = "start"
    /\ \E namespace \in Namespaces :
          LET built == CLIRules_init(namespace)
          IN  /\ arguments' = namespace
              /\ rules' = built.rules
              /\ IF built.raised = "none"
                 THEN /\ link_queue' = add_urls(link_queue, namespace.url)
                      /\ seeds' = Len(namespace.url)
                      /\ pc' = "loop"
                 ELSE /\ pc' = IF built.raised = "RuleError"
                               THEN "rule-error" ELSE "crashed"
                      /\ UNCHANGED <<link_queue, seeds>>
    /\ UNCHANGED <<web, known_urls, mirror, requests, last, verdict>>

\* The crawl saves the seed page: Mirror.add as Spider._process_link
\* calls it.
Spider_saves ==
    /\ pc = "loop"
    /\ SeedLink.url \notin DOMAIN mirror.encountered_urls
    /\ LET fetched == Link_resolve(SeedLink, "full", TRUE, FALSE).link
       IN  mirror' = Mirror_add(mirror, fetched, fetched.response)
    /\ UNCHANGED <<web, link_queue, known_urls, pc, seeds, requests, last,
                   arguments, rules, verdict>>

\* A call of one of the hooks on link: the verdict, or the exception that
\* leaves the crawl loop.
RuleCall(hook, rule_list) ==
    /\ pc = "loop"
    /\ \E link \in RuleLinks :
          LET r == CLIRules_apply_rules(rule_list, link, mirror)
          IN  /\ verdict' = [hook |-> hook, rule_list |-> rule_list,
                             link |-> link, mirror |-> mirror,
                             raised |-> r.raised, result |-> r.result]
              /\ pc' = IF r.raised = "none" THEN pc ELSE "aborted"
    /\ UNCHANGED <<web, link_queue, known_urls, mirror, seeds, requests, last,
                   arguments, rules>>

\* CLIRules.follow
CLIRules_follow == pc = "loop" /\ RuleCall("follow", rules.follow_rules)

\* CLIRules.save
CLIRules_save == pc = "loop" /\ RuleCall("save", rules.save_rules)

\* CLIRules.stop
CLIRules_stop == pc = "loop" /\ RuleCall("stop", rules.stop_rules)

RuleNext ==
    \/ Script_main
    \/ Spider_saves
    \/ CLIRules_follow
    \/ CLIRules_save
    \/ CLIRules_stop

RuleSpec == RuleInit /\ [][RuleNext]_vars

(* ----------------------------- operators ------------------------------- *)

\* What a test can return: booleans, None, sizes and depths, strings.
SystemValues ==
    {Value("bool", TRUE), Value("bool", FALSE), Value("NoneType", 0)}
        \cup {Value("int", n) : n \in {0, 1, 4, 800, 1200}}
        \cup {Value("str", s) : s \in {<<>>, <<"f", "o", "o">>,
                                       <<"a", "b", "c">>, <<"1">>}}

\* The values written in rules:
\*   ''  0  1  2  4  1000  1K  1k  1M  1m  1G  K  abc  x  foo  fo  *o  f?o  *
UserValues ==
    { <<>>, <<"0">>, <<"1">>, <<"2">>, <<"4">>, <<"1", "0", "0", "0">>,
      <<"1", "K">>, <<"1", "k">>, <<"1", "M">>, <<"1", "m">>, <<"1", "G">>,
      <<"K">>, <<"a", "b", "c">>, <<"x">>, <<"f", "o", "o">>, <<"f", "o">>,
      <<"*", "o">>, <<"f", "?", "o">>, <<"*">> }

OperatorInit ==
    /\ web = WebPlain
    /\ mirror = FreshMirror
    /\ link_queue = <<>>
    /\ known_urls = {}
    /\ pc = "operands"
    /\ seeds = 0
    /\ requests = [e \in Endpoints |-> 0]
    /\ last = Record(None, <<>>, Outcome(None, <<>>))
    /\ arguments \in [sys : SystemValues, user : UserValues]
    /\ rules = None
    /\ verdict = None

\* One call of an operator on the operands
OperatorCall(op, returned) ==
    /\ pc = "operands"
    /\ pc' = "returned"
    /\ verdict' = [op |-> op, raised |-> returned.raised,
                   passes |-> returned.passes]
    /\ UNCHANGED <<web, link_queue, known_urls, mirror, seeds, requests, last,
                   arguments, rules>>

\* OperatorImpl.truth is called
Call_truth ==
    pc = "operands" /\
    OperatorCall("truth", OperatorImpl_truth(arguments.sys, arguments.user))

\* OperatorImpl.equality is called
Call_equality ==
    pc = "operands" /\
    OperatorCall("equality",
                 OperatorImpl_equality(arguments.sys, arguments.user))

\* OperatorImpl.smaller is called
Call_smaller ==
    pc = "operands" /\
    OperatorCall("smaller",
                 OperatorImpl_smaller(arguments.sys, arguments.user))

\* OperatorImpl.larger is called
Call_larger ==
    pc = "operands" /\
    OperatorCall("larger", OperatorImpl_larger(arguments.sys, arguments.user))

\* OperatorImpl.larger_or_equal is called
Call_larger_or_equal ==
    pc = "operands" /\
    OperatorCall("larger_or_equal",
                 OperatorImpl_larger_or_equal(arguments.sys, arguments.user))

\* OperatorImpl.smaller_or_equal is called
Call_smaller_or_equal ==
    pc = "operands" /\
    OperatorCall("smaller_or_equal",
                 OperatorImpl_smaller_or_equal(arguments.sys, arguments.user))

OperatorNext ==
    \/ Call_truth
    \/ Call_equality
    \/ Call_smaller
    \/ Call_larger
    \/ Call_larger_or_equal
    \/ Call_smaller_or_equal

OperatorSpec == OperatorInit /\ [][OperatorNext]_vars

(* ---------------------------- mirror calls ----------------------------- *)

\* The pages the mirror is given: page a links to b with a fragment, once
\* with http and once with https, to b plainly and to c on another host;
\* b links back to a and c links to b through https.
MirrorPages ==
    [page \in Pages |->
        CASE page = "a" -> <<Found(Url("http", "b", "f"), FALSE, FALSE),
                             Found(Url("https", "b", "f"), FALSE, FALSE),
                             Found(Http("b"), FALSE, FALSE),
                             Found(Http("c"), TRUE, FALSE)>>
          [] page = "b" -> <<Found(Http("a"), FALSE, FALSE)>>
          [] page = "c" -> <<Found(Https("b"), FALSE, FALSE)>>]

\* The response of page, as Spider._process_link hands it to Mirror.add
MirrorResponse(page) ==
    [status_code |-> 200, url |-> Http(page), method |-> "GET",
     redirects |-> <<>>, links |-> MirrorPages[page], etag |-> ""]

\* The redirects the spider reports: b answers with a redirect to c,
\* permanent or not.
RedirectCodes == {301, 302}

MirrorInit ==
    /\ web = WebPlain
    /\ mirror \in {Mirror_init(EmptyDict, EmptyDict, EmptyDict,
                               write_at_once, convert_links) :
                        write_at_once \in BOOLEAN, convert_links \in BOOLEAN}
                    \cup {StoredMirror, TwinMirror}
    /\ link_queue = <<>>
    /\ known_urls = {}
    /\ pc = "mirror"
    /\ seeds = 0
    /\ requests = [e \in Endpoints |-> 0]
    /\ last = [op |-> "init", url |-> None, before |-> None]
    /\ arguments = None
    /\ rules = None
    /\ verdict = None

\* A call of a method of the mirror: what it was called for, and the
\* mirror as the call found it.
MirrorCall(op, url, after) ==
    /\ pc = "mirror"
    /\ mirror' = after
    /\ last' = [op |-> op, url |-> url, before |-> mirror]
    /\ UNCHANGED <<web, link_queue, known_urls, pc, seeds, requests,
                   arguments, rules, verdict>>

\* mirror.add(link, response)
Call_add ==
    /\ pc = "mirror"
    /\ \E page \in Pages :
        MirrorCall("add", Http(page),
                   Mirror_add(mirror, Link(Http(page), None,
                                           Info("none", FALSE, FALSE)),
                              MirrorResponse(page)))

\* mirror.encounter_url(link)
Call_encounter_url ==
    /\ pc = "mirror"
    /\ \E page \in Pages :
        \E filename \in Get(mirror.stored_urls, Http(page), {None}) :
            MirrorCall("encounter_url", Http(page),
                       Mirror_encounter_url(mirror,
                                            Link(Http(page), None,
                                                 Info("none", FALSE, FALSE)),
                                            filename))

\* mirror.add_redirect(link, target_link, code); the server answers with
\* the same status each time
Call_add_redirect ==
    /\ pc = "mirror"
    /\ \E code \in RedirectCodes :
        /\ Http("b") \in DOMAIN mirror.redirects
              => code = mirror.redirects[Http("b")][1]
        /\ MirrorCall("add_redirect", Http("b"),
                      Mirror_add_redirect(mirror,
                                          Link(Http("b"), None,
                                               Info("none", FALSE, FALSE)),
                                          Link(Http("c"), None,
                                               Info("none", FALSE, FALSE)),
                                          code))

\* mirror.finish()
Call_finish ==
    pc = "mirror" /\ MirrorCall("finish", None, Mirror_finish(mirror))

\* mirror.delete_unencountered()
Call_delete_unencountered ==
    pc = "mirror" /\ MirrorCall("delete_unencountered", None,
                                Mirror_delete_unencountered(mirror))

MirrorNext ==
    \/ Call_add
    \/ Call_encounter_url
    \/ Call_add_redirect
    \/ Call_finish
    \/ Call_delete_unencountered

MirrorSpec == MirrorInit /\ [][MirrorNext]_vars

(* --------------------------- DefaultRules ------------------------------ *)

\* The Expires header of a response: absent, or a time before or after
\* the moment the next crawl asks (datetime.datetime.utcnow()).
ExpiresHeaders == {None, [time |-> "past"], [time |-> "future"]}

\* DefaultRules.expiration_check(link, spider): what it returns, as a truth
\* value, or the exception it raises.  link is whatever the caller hands
\* in; link.url of a string raises AttributeError.  url_info[..].get(
\* 'expires') is None for an entry without that key.
DefaultRules_expiration_check(link, m) ==
    LET check(expires) ==
            [raised |-> "none",
             truthy |-> expires # None /\ expires = [time |-> "future"]]
        get(info) == IF "expires" \in DOMAIN info THEN info.expires ELSE None
    IN  IF "url" \notin DOMAIN link
        THEN [raised |-> "AttributeError", truthy |-> FALSE]
        ELSE IF link.url \notin DOMAIN m.url_info
        THEN [raised |-> "none", truthy |-> FALSE]
        ELSE check(get(m.url_info[link.url]))

\* DefaultRules.skip_download(link, spider):
\* "return self.expiration_check(link.url, spider)"
DefaultRules_skip_download(link, m) == DefaultRules_expiration_check(link.url, m)

\* A first crawl saves pages whose responses carry an Expires header, a
\* later crawl opens the same mirror directory and asks the rules whether
\* the download of a url can be skipped.  last.expires holds the header
\* each page was saved with.
ExpiryInit ==
    /\ web = WebPlain
    /\ mirror \in {Mirror_init(EmptyDict, EmptyDict, EmptyDict,
                               write_at_once, convert_links) :
                        write_at_once \in BOOLEAN, convert_links \in BOOLEAN}
    /\ link_queue = <<>>
    /\ known_urls = {}
    /\ pc = "first crawl"
    /\ seeds = 0
    /\ requests = [e \in Endpoints |-> 0]
    /\ last = [expires |-> EmptyDict]
    /\ arguments = None
    /\ rules = None
    /\ verdict = None

\* The first crawl saves a page: Mirror.add(link, response)
Expiry_save ==
    /\ pc = "first crawl"
    /\ \E page \in Pages, expires \in ExpiresHeaders :
        LET headers(response) ==
                [f \in DOMAIN response \cup {"expires"} |->
                    IF f = "expires" THEN expires ELSE response[f]]
        IN  /\ mirror' = Mirror_add(mirror,
                                    Link(Http(page), None,
                                         Info("none", FALSE, FALSE)),
                                    headers(MirrorResponse(page)))
            /\ last' = [last EXCEPT !.expires = Put(@, Http(page), expires)]
    /\ UNCHANGED <<web, link_queue, known_urls, pc, seeds, requests,
                   arguments, rules, verdict>>

\* The later crawl opens the mirror directory: Mirror.__init__
Expiry_open ==
    /\ pc = "first crawl"
    /\ pc' = "next crawl"
    /\ mirror' = Mirror_init(mirror.stored_urls, mirror.url_info, mirror.files,
                             mirror.write_at_once, mirror.convert_links)
    /\ UNCHANGED <<web, link_queue, known_urls, seeds, requests, last,
                   arguments, rules, verdict>>

\* The later crawl processes a link: rules.skip_download(link, spider)
Expiry_skip_download ==
    /\ pc = "next crawl"
    /\ \E page \in Pages, scheme \in Schemes :
        LET asked(link) ==
                LET returned == DefaultRules_skip_download(link, mirror)
                IN  /\ arguments' = [link |-> link]
                    /\ verdict' = [op |-> "skip_download",
                                   raised |-> returned.raised,
                                   truthy |-> returned.truthy]
        IN  asked(Link(Url(scheme, page, ""), None, Info("user", FALSE, FALSE)))
    /\ pc' = "asked"
    /\ UNCHANGED <<web, link_queue, known_urls, mirror, seeds, requests, last,
                   rules>>

ExpiryNext ==
    \/ Expiry_save
    \/ Expiry_open
    \/ Expiry_skip_download

ExpirySpec == ExpiryInit /\ [][ExpiryNext]_vars

(* ------------------------ Link canonicalisation ------------------------ *)

\* Urls as they are written: with the scheme and the host in either case,
\* an explicit port, an empty path or query, a fragment.  Such a url is a
\* Url whose page is the record of host, port, path and query.
WrittenPages ==
    [host : {"example.org", "EXAMPLE.org"}, port : {"", "80", "443"},
     path : {"", "/", "/x"}, query : {"", "?"}]
WrittenUrls ==
    {Url(scheme, page, frag) :
        scheme \in {"http", "https", "HTTP"}, page \in WrittenPages,
        frag \in Fragments}

\* str.lower() on the schemes and hosts above
lower(string) ==
    CASE string = "HTTP" -> "http"
      [] string = "EXAMPLE.org" -> "example.org"
      [] OTHER -> string

\* urlnorm.norm(url), the library Link.__init__ calls, for a url it
\* accepts: scheme and host in lower case, the default port of the scheme
\* removed, '/' for the empty path, no empty query.  port_kept says what
\* the library does with an explicit port that is not the default of the
\* url's scheme: it keeps it, or removes it as well.
urlnorm_norm(url, port_kept) ==
    LET scheme == lower(url.scheme)
        default == IF scheme = "https" THEN "443" ELSE "80"
        port(p) == IF p = default \/ ~port_kept THEN "" ELSE p
    IN  Url(scheme,
            [host |-> lower(url.page.host),
             port |-> port(url.page.port),
             path |-> IF url.page.path = "" THEN "/" ELSE url.page.path,
             query |-> IF url.page.query = "?" THEN "" ELSE url.page.query],
            url.frag)

\* Link(url).url for a url as written
Link_url(url, port_kept) ==
    Link(urlnorm_norm(url, port_kept), None, Info("user", FALSE, FALSE)).url

\* A url is drawn, and the library is the one or the other.
LinkInit ==
    /\ web = WebPlain
    /\ mirror = FreshMirror
    /\ link_queue = <<>>
    /\ known_urls = {}
    /\ pc = "urls"
    /\ seeds = 0
    /\ requests = [e \in Endpoints |-> 0]
    /\ last = None
    /\ arguments \in [url : WrittenUrls, port_kept : BOOLEAN]
    /\ rules = None
    /\ verdict = None

\* The canonical urls compared: Link(...).url of two urls
LinkCall(op, first, second) ==
    /\ pc = "urls"
    /\ pc' = "built"
    /\ verdict' = [op |-> op, first |-> first, second |-> second]
    /\ UNCHANGED <<web, link_queue, known_urls, mirror, seeds, requests, last,
                   arguments, rules>>

\* Link(Link(u).url): a Link is built from the canonical url of another
Link_again ==
    /\ pc = "urls"
    /\ LET again(canonical) ==
               LinkCall("again", canonical,
                        Link_url(canonical, arguments.port_kept))
       IN  again(Link_url(arguments.url, arguments.port_kept))

\* Link(u) and Link(v) for a url v that differs from u in its fragment or
\* in http versus https only
Link_other ==
    /\ pc = "urls"
    /\ \E scheme \in {"http", "https"}, frag \in Fragments :
          LinkCall("other",
                   Link_url(arguments.url, arguments.port_kept),
                   Link_url([arguments.url EXCEPT !.scheme = scheme,
                                                  !.frag = frag],
                            arguments.port_kept))

LinkNext ==
    \/ Link_again
    \/ Link_other

LinkSpec == LinkInit /\ [][LinkNext]_vars

(* ----------------------------- path tests ------------------------------ *)

\* Paths, as link.parsed.path.split('/') gives them: '/', '/foo', '/foo/',
\* '/foo/bar', '/foobar' and '/bar'.
Paths ==
    {<<"", "">>, <<"", "foo">>, <<"", "foo", "">>, <<"", "foo", "bar">>,
     <<"", "foobar">>, <<"", "bar">>}
Hosts == {"example.org", "example.de"}

\* A link for the path tests: the netloc and the path of link.parsed, and
\* the like for link.root; root is None for a link without previous.
PathLinks ==
    [netloc : Hosts, path : Paths,
     root : [netloc : Hosts, path : Paths] \cup {None}]

\* genericpath.commonprefix of two lists: their longest common prefix
RECURSIVE commonprefix(_, _)
commonprefix(a, b) ==
    IF a = <<>> \/ b = <<>> \/ Head(a) # Head(b) THEN <<>>
    ELSE <<Head(a)>> \o commonprefix(Tail(a), Tail(b))

\* TestImpl._path_distance(link1, link2): False or an int
TestImpl_path_distance(link1, link2) ==
    LET source == link2.path
        this == link1.path
        distance(shared) ==
            IF Len(shared) < Len(source) /\ Len(shared) < Len(this)
            THEN Returned("bool", FALSE)
            ELSE Returned("int", Len(this) - Len(source))
    IN  IF link1.netloc # link2.netloc
        THEN Returned("bool", FALSE)
        ELSE distance(commonprefix(source, this))

\* TestImpl.path_distance_to_original
TestImpl_path_distance_to_original(link) ==
    IF link.root = None THEN Returned("int", 0)
    ELSE TestImpl_path_distance(link, link.root)

\* TestImpl.down: "return TestImpl.path_distance_to_original(link) >= 0";
\* False compares as 0.
TestImpl_down(link) ==
    Returned("bool", as_number(TestImpl_path_distance_to_original(link)) >= 0)

\* A link is drawn.
PathInit ==
    /\ web = WebPlain
    /\ mirror = FreshMirror
    /\ link_queue = <<>>
    /\ known_urls = {}
    /\ pc = "link"
    /\ seeds = 0
    /\ requests = [e \in Endpoints |-> 0]
    /\ last = None
    /\ arguments \in [link : PathLinks]
    /\ rules = None
    /\ verdict = None

\* A test is called on the link
PathCall(op, returned) ==
    /\ pc = "link"
    /\ pc' = "tested"
    /\ verdict' = [op |-> op, type |-> returned.type, value |-> returned.value]
    /\ UNCHANGED <<web, link_queue, known_urls, mirror, seeds, requests, last,
                   arguments, rules>>

Call_down == pc = "link" /\ PathCall("down", TestImpl_down(arguments.link))

Call_path_distance_to_original ==
    /\ pc = "link"
    /\ PathCall("path_distance_to_original",
                TestImpl_path_distance_to_original(arguments.link))

PathNext ==
    \/ Call_down
    \/ Call_path_distance_to_original

PathSpec == PathInit /\ [][PathNext]_vars

(* ---------------------------- Link.resolve ----------------------------- *)

\* One link object, built for a seed url over some web, with the mirror
\* of a first or of a later run.
ResolveInit ==
    /\ \E world \in Worlds : web = world[1] /\ mirror = world[2]
    /\ link_queue = <<>>
    /\ known_urls = {}
    /\ pc = "resolve"
    /\ seeds = 0
    /\ requests = [e \in Endpoints |-> 0]
    /\ last \in {Link(url, None, Info("user", FALSE, FALSE)) :
                    url \in {Http("a"), Http("b"), Url("https", "c", "f")}}
    /\ arguments = None
    /\ rules = None
    /\ verdict = None

\* link.resolve(spider, type) is called on the link; verdict keeps the
\* link as it was, the requests sent and whether the call raised.
Resolve(type) ==
    /\ pc = "resolve"
    /\ seeds < MaxCalls
    /\ \E connects \in BOOLEAN, not_modified \in BOOLEAN :
          LET returns(r) ==
                  /\ last' = r.link
                  /\ requests' = Counted(requests, r.sent)
                  /\ verdict' = [op |-> "resolve", type |-> type,
                                 before |-> last, sent |-> r.sent,
                                 raised |-> r.raised]
          IN  returns(Link_resolve(last, type, connects, not_modified))
    /\ seeds' = seeds + 1
    /\ UNCHANGED <<web, link_queue, known_urls, mirror, pc, arguments, rules>>

Resolve_head == pc = "resolve" /\ Resolve("head")

Resolve_full == pc = "resolve" /\ Resolve("full")

\* link.retry()
Resolve_retry ==
    /\ pc = "resolve"
    /\ seeds < MaxCalls
    /\ last' = Link_retry(last)
    /\ verdict' = [op |-> "retry", type |-> "none", before |-> last,
                   sent |-> <<>>, raised |-> FALSE]
    /\ seeds' = seeds + 1
    /\ UNCHANGED <<web, link_queue, known_urls, mirror, pc, requests,
                   arguments, rules>>

ResolveNext ==
    \/ Resolve_head
    \/ Resolve_full
    \/ Resolve_retry

ResolveSpec == ResolveInit /\ [][ResolveNext]_vars

(* ------------------------- Script.main, flush -------------------------- *)

\* Mirror.flush: stored_urls, url_info and info are synced; what the
\* shelves in the mirror directory hold afterwards.
Mirror_flush(m, info) ==
    [stored_urls |-> m.stored_urls, url_info |-> m.url_info, info |-> info]

\* mirror.info as a previous run left it, and as Script.main sets it
PreviousInfo == [k \in {"cli-ns", "cli-argv"} |-> "previous"]
CurrentInfo == [k \in {"cli-ns", "cli-argv"} |-> "current"]

\* Script.main has opened the mirror and added the url of the command
\* line.  arguments is the namespace (--update needs an existing mirror),
\* rules.info the info shelf in memory, verdict the shelves on disk.
MainInit ==
    /\ \E world \in Worlds : web = world[1] /\ mirror = world[2]
    /\ link_queue \in {<<Link(url, None, Info("user", FALSE, FALSE))>> :
                          url \in SeedUrls}
    /\ known_urls = {}
    /\ pc = "main"
    /\ seeds = 1
    /\ requests = [e \in Endpoints |-> 0]
    /\ last = Record(None, <<>>, Outcome(None, <<>>))
    /\ arguments \in {ns \in [update : BOOLEAN, enable_delete : BOOLEAN] :
                         ns.update => mirror # FreshMirror}
    /\ rules = [info |-> IF mirror = FreshMirror THEN EmptyDict ELSE PreviousInfo]
    /\ verdict = Mirror_flush(mirror, rules.info)

\* "if not namespace.update: mirror.info['cli-ns'] = namespace ...", and
\* spider.loop() is entered
Main_store_options ==
    /\ pc = "main"
    /\ rules' = IF ~arguments.update THEN [info |-> CurrentInfo] ELSE rules
    /\ pc' = "loop"
    /\ UNCHANGED <<web, link_queue, known_urls, mirror, seeds, requests, last,
                   arguments, verdict>>

\* The outcome of Spider._process_link when a test of the save rules
\* raises (TestImpl.size does, for one): o is the outcome had rules.save
\* answered; the requests were sent, and neither the mirror nor the known
\* urls were touched.
SaveRaises(o, link, queue) ==
    LET asked == CHOOSE i \in DOMAIN o.calls : o.calls[i] = "rules.save"
    IN  [Outcome(link, queue) EXCEPT
            !.link = o.link,
            !.sent = o.sent,
            !.parsed = o.parsed,
            !.calls = SubSeq(o.calls, 1, asked),
            !.events = SelectSeq(o.events, LAMBDA e : e[1] = "follow"),
            !.raised = TRUE]

\* Spider.process_one inside spider.loop(), under CLIRules: skip_download
\* and configure_request are the ones of Rules, which skip nothing and
\* send no validators.  Mirror.add and Mirror.add_redirect flush once they
\* have changed the maps.
Main_process_one ==
    /\ pc = "loop"
    /\ link_queue # <<>>
    /\ \A e \in Endpoints : requests[e] < MaxRequests
    /\ LET link == link_queue[Len(link_queue)]
           queue == SubSeq(link_queue, 1, Len(link_queue) - 1)
       IN  /\ link.depth <= MaxDepth
           /\ \E c \in {a \in Answers(link) :
                           ~a.skip_download /\ ~a.not_modified},
                 save_raises \in BOOLEAN :
                LET flushes(o) ==
                        \E i \in DOMAIN o.calls :
                            o.calls[i] \in {"mirror.add", "mirror.add_redirect"}
                    returns(o) ==
                        /\ link_queue' = IF o.add_again /\ ~o.raised
                                         THEN appendleft(o.queue, o.link)
                                         ELSE o.queue
                        /\ known_urls' = o.known_urls
                        /\ mirror' = o.mirror
                        /\ pc' = IF o.raised THEN "aborted" ELSE pc
                        /\ requests' = Counted(requests, o.sent)
                        /\ last' = Record(link, queue, o)
                        /\ verdict' = IF flushes(o)
                                      THEN Mirror_flush(o.mirror, rules.info)
                                      ELSE verdict
                    hooks(o) ==
                        IF save_raises
                           /\ \E i \in DOMAIN o.calls : o.calls[i] = "rules.save"
                        THEN returns(SaveRaises(o, link, queue))
                        ELSE returns(o)
                IN  hooks(Spider_process_link(link, queue, c))
    /\ UNCHANGED <<web, seeds, arguments, rules>>

\* spider.loop() behind its while loop: mirror.finish(), which flushes
\* after the conversion
Main_loop_end ==
    /\ pc = "loop"
    /\ link_queue = <<>>
    /\ LET finished == Mirror_finish(mirror)
       IN  /\ mirror' = finished
           /\ pc' = IF finished.raised = "none" THEN "finished" ELSE "crashed"
           /\ verdict' = IF finished.raised = "none"
                         THEN Mirror_flush(finished, rules.info) ELSE verdict
    /\ UNCHANGED <<web, link_queue, known_urls, seeds, requests, last,
                   arguments, rules>>

\* "if namespace.enable_delete: mirror.delete_unencountered()", the last
\* statement of Script.main
Main_delete ==
    /\ pc = "finished"
    /\ LET deleted == Mirror_delete_unencountered(mirror)
       IN  IF arguments.enable_delete
           THEN /\ mirror' = deleted
                /\ pc' = IF deleted.raised = "none" THEN "returned" ELSE "crashed"
           ELSE /\ mirror' = mirror
                /\ pc' = "returned"
    /\ UNCHANGED <<web, link_queue, known_urls, seeds, requests, last,
                   arguments, rules, verdict>>

\* The program ends.  Nothing in Script.main closes the shelves: whether
\* they are synced once more when the interpreter discards them is not
\* determined by the program.
Main_exit ==
    /\ pc \in {"returned", "aborted", "crashed"}
    /\ pc' = "exit"
    /\ verdict' \in {verdict, Mirror_flush(mirror, rules.info)}
    /\ UNCHANGED <<web, link_queue, known_urls, mirror, seeds, requests, last,
                   arguments, rules>>

MainNext ==
    \/ Main_store_options
    \/ Main_process_one
    \/ Main_loop_end
    \/ Main_delete
    \/ Main_exit

MainSpec == MainInit /\ [][MainNext]_vars

(* ----------------------------- termination ----------------------------- *)

\* a and b link to each other and to nothing else; no request fails.
WebLoop ==
    [e \in Endpoints |->
        CASE e = Http("a") ->
                Page(200, <<Found(Http("b"), FALSE, FALSE)>>, "etag-a")
          [] e = Http("b") ->
                Page(200, <<Found(Http("a"), FALSE, FALSE)>>, "etag-b")
          [] OTHER -> Down]

\* A link as the crawl loop reads it: of the chain behind it only the
\* previous link is read (set_previous), and the counters depth and
\* domain_depth are read by tests alone, whose answers are free here.  The
\* chain is cut behind the previous link and the counters stop at
\* MaxDepth + 1, so that a crawl that never ends comes back to a state.
Cut(link) ==
    LET flat(l) == IF l = None THEN None
                   ELSE [l EXCEPT !.previous = None, !.redirect_of = None,
                                  !.depth = IF @ > MaxDepth THEN MaxDepth + 1 ELSE @,
                                  !.domain_depth =
                                      IF @ > MaxDepth THEN MaxDepth + 1 ELSE @]
    IN  [link EXCEPT !.previous = flat(@), !.redirect_of = flat(@),
                     !.depth = IF @ > MaxDepth THEN MaxDepth + 1 ELSE @,
                     !.domain_depth = IF @ > MaxDepth THEN MaxDepth + 1 ELSE @]

\* The spider holds the seed http://example.org/a, over a web on which no
\* connection fails, and loop() is entered.
TermInit ==
    /\ web \in {WebPlain, WebLoop}
    /\ mirror \in {FreshMirror, StoredMirror}
    /\ link_queue \in {<<Link(Http("a"), None, Info(source, FALSE, FALSE))>> :
                          source \in Sources}
    /\ known_urls = {}
    /\ pc = "loop"
    /\ seeds = 1
    /\ requests = [e \in Endpoints |-> 0]
    /\ last = Record(None, <<>>, Outcome(None, <<>>))
    /\ arguments = None
    /\ rules = None
    /\ verdict = None

\* Spider.process_one, for any depth; the requests are not counted
Term_process_one ==
    /\ pc = "loop"
    /\ link_queue # <<>>
    /\ LET link == link_queue[Len(link_queue)]
           queue == SubSeq(link_queue, 1, Len(link_queue) - 1)
       IN  \E c \in Answers(link) :
                LET cut(q) == [i \in DOMAIN q |-> Cut(q[i])]
                    returns(o) ==
                        /\ link_queue' = cut(IF o.add_again /\ ~o.raised
                                             THEN appendleft(o.queue, o.link)
                                             ELSE o.queue)
                        /\ known_urls' = o.known_urls
                        /\ mirror' = o.mirror
                        /\ pc' = IF o.raised THEN "aborted" ELSE pc
                        /\ last' = Record(link, queue, [o EXCEPT !.link = Cut(@)])
                IN  returns(Spider_process_link(link, queue, c))
    /\ UNCHANGED <<web, seeds, requests, arguments, rules, verdict>>

\* Spider.loop behind its while loop
Term_loop_end ==
    /\ pc = "loop"
    /\ link_queue = <<>>
    /\ LET finished == Mirror_finish(mirror)
       IN  /\ mirror' = finished
           /\ pc' = IF finished.raised = "none" THEN "done" ELSE "aborted"
    /\ UNCHANGED <<web, link_queue, known_urls, seeds, requests, last,
                   arguments, rules, verdict>>

TermNext ==
    \/ Term_process_one
    \/ Term_loop_end

\* loop() keeps calling process_one while links are waiting, and goes on
\* to finish() when none is left: weak fairness of both steps.  That of
\* Term_process_one is written out with its enabling condition, a link
\* waiting while pc = "loop".
TermSpec ==
    /\ TermInit
    /\ [][TermNext]_vars
    /\ WF_vars(Term_loop_end)
    /\ \/ []<>(pc # "loop" \/ link_queue = <<>>)
       \/ []<><<Term_process_one>>_vars

(* ------------------------------ file names ------------------------------ *)

\* The pages stored in one run: those of MirrorPages and
\* http://example.org/b.htm, a page without links.
NamePages == Pages \cup {"b.htm"}

\* The response of page, as Spider._process_link hands it to Mirror.add
NameResponse(page) ==
    IF page \in Pages THEN MirrorResponse(page)
    ELSE [status_code |-> 200, url |-> Http(page), method |-> "GET",
          redirects |-> <<>>, links |-> <<>>, etag |-> ""]

\* A run that starts with an empty mirror directory.
NameInit ==
    /\ web = WebPlain
    /\ mirror \in {Mirror_init(EmptyDict, EmptyDict, EmptyDict,
                               write_at_once, convert_links) :
                        write_at_once \in BOOLEAN, convert_links \in BOOLEAN}
    /\ link_queue = <<>>
    /\ known_urls = {}
    /\ pc = "names"
    /\ seeds = 0
    /\ requests = [e \in Endpoints |-> 0]
    /\ last = [op |-> "init", url |-> None, before |-> None]
    /\ arguments = None
    /\ rules = None
    /\ verdict = None

\* mirror.add(link, response), once for a url, as the spider calls it
Name_add ==
    /\ pc = "names"
    /\ mirror.raised = "none"
    /\ \E page \in NamePages :
        /\ Http(page) \notin known_urls
        /\ mirror' = Mirror_add(mirror, Link(Http(page), None,
                                             Info("none", FALSE, FALSE)),
                                NameResponse(page))
        /\ known_urls' = known_urls \cup {Http(page)}
        /\ last' = [op |-> "add", url |-> Http(page), before |-> mirror]
    /\ UNCHANGED <<web, link_queue, pc, seeds, requests, arguments, rules,
                   verdict>>

\* mirror.finish(), at the end of loop()
Name_finish ==
    /\ pc = "names"
    /\ mirror.raised = "none"
    /\ mirror' = Mirror_finish(mirror)
    /\ last' = [op |-> "finish", url |-> None, before |-> mirror]
    /\ pc' = "finished"
    /\ UNCHANGED <<web, link_queue, known_urls, seeds, requests, arguments,
                   rules, verdict>>

NameNext ==
    \/ Name_add
    \/ Name_finish

NameSpec == NameInit /\ [][NameNext]_vars

(* ----------------------------- properties ------------------------------ *)

\* A link has been taken from the queue and processed.
Took == last.taken # None

\* The last call of _process_link sent this event / made this call.
Happened(event) == \E i \in DOMAIN last.events : last.events[i] = event
Called(name) == \E i \in DOMAIN last.calls : last.calls[i] = name
TimesCalled(name) == Cardinality({i \in DOMAIN last.calls : last.calls[i] = name})

\* The link processed last holds a response object.
Answered == Took /\ last.link.response \notin {None, False}

\* The canonical url of a url.
Canonical(url) == Link(url, None, Info("none", FALSE, FALSE)).url

\* The links the last call put on the left of the queue.
Enqueued == SubSeq(link_queue, 1, Len(link_queue) - Len(last.pending))

\* The queue is the one the link was taken from, with the new links, if
\* any, on its left.
PendingKept ==
    /\ Len(link_queue) >= Len(last.pending)
    /\ SubSeq(link_queue, Len(link_queue) - Len(last.pending) + 1,
              Len(link_queue)) = last.pending

SkippedDuplicate == <<"follow", "skipped", "duplicate">>
SkippedNoDownload == <<"follow", "skipped", "no-download">>
FailedRedirect == <<"follow", "failed", "redirect">>
FailedHttpError == <<"follow", "failed", "http-error">>
FailedNotModified == <<"follow", "failed", "not-modified">>
SavedTrue == <<"save", "saved", "true">>
SavedFalse == <<"save", "saved", "false">>
BailTrue == <<"bail", "bail", "true">>
BailFalse == <<"bail", "bail", "false">>

\* C1 (as amended).  A fetch that succeeds and is saved makes the url
\* known, known urls stay known, and a queue entry whose url is known when
\* it is taken is skipped without a request, a rules hook or a mirror
\* call: as 'duplicate', or as 'no-download' when the entry is marked
\* do-not-follow.  So a url is fetched and saved through at most one of
\* its queue entries.
C1_KnownUrlIsSkipped ==
    Took =>
      /\ last.known_before \subseteq known_urls
      /\ (Happened(SavedTrue) =>
            /\ last.taken.url \notin last.known_before
            /\ last.taken.url \in known_urls)
      /\ (last.taken.url \in last.known_before =>
            /\ last.sent = <<>>
            /\ last.calls = <<>>
            /\ last.events = IF last.taken.info.do_not_follow
                             THEN <<SkippedNoDownload>>
                             ELSE <<SkippedDuplicate>>
            /\ ~last.add_again
            /\ link_queue = last.pending)

\* C1: a seed added twice is skipped as a duplicate the second time.
C1_Witness ==
    /\ Took
    /\ last.taken.previous = None
    /\ last.taken.url \in last.known_before
    /\ last.events = <<SkippedDuplicate>>

\* C1 as stated: every later entry for a known url ends as 'skipped:
\* duplicate' without any request.
C1_Original ==
    (Took /\ last.taken.url \in last.known_before) =>
        (last.events = <<SkippedDuplicate>> /\ last.sent = <<>>)

\* C2.  A fetch whose save the rules deny leaves the url out of the known
\* urls; every valid url offered to _add that is not known is queued; and a
\* queue entry whose url is not known is not skipped as a duplicate: when
\* its fetch succeeds the save rule is asked again.
C2_DeniedSaveStaysEligible ==
    Took =>
      /\ (Happened(SavedFalse) => last.taken.url \notin known_urls)
      /\ (last.taken.url \notin last.known_before => ~Happened(SkippedDuplicate))
      /\ (Happened(<<"follow", "success", "true">>) =>
            Called("link.resolve") /\ Called("rules.save"))
      /\ \A i \in DOMAIN last.offered :
            LET found == last.offered[i]
            IN  (~InvalidUrl(found.url) /\ Canonical(found.url) \notin known_urls)
                => \E j \in DOMAIN Enqueued :
                      Enqueued[j] = Link(found.url, Ref(last.link), found.opts)

\* C2: page a, fetched before with its save denied, is found again on
\* page b, queued, fetched a second time and submitted to the save rule.
C2_Witness ==
    /\ web = WebCycle
    /\ Took
    /\ last.taken.url = Http("a")
    /\ last.taken.depth = 2
    /\ requests[Http("a")] = 2
    /\ Called("rules.save")

\* C3 (as amended).  A call of _process_link that gets a redirected
\* response asks the follow rule once (not at all for a 'user' link),
\* before the request; it ends with 'failed: redirect' alone, saves
\* nothing, never parses or offers the links of a body, leaves the known
\* urls alone, and puts one new link on the right end of the queue: the
\* link of the last hop, with the previous and info of the original, so
\* that no link exists for the hops between.  When that link is taken the
\* follow rule is asked once, unless its url is known by then: then it is
\* skipped as a duplicate and the follow rule is not asked.
C3_RedirectCollapsing ==
    Took =>
      /\ TimesCalled("rules.follow") <= 1
      /\ (Happened(FailedRedirect) =>
            LET hops == last.link.response.redirects
                target == link_queue[Len(link_queue)]
            IN  /\ last.calls =
                     (IF last.taken.info.source # "user"
                      THEN <<"rules.follow">> ELSE <<>>)
                     \o <<"rules.skip_download", "link.resolve",
                          "mirror.add_redirect">>
                /\ last.events = <<FailedRedirect>>
                /\ link_queue = Append(last.pending, target)
                /\ target.url = Canonical(hops[Len(hops)].url)
                /\ target.previous = last.taken.previous
                /\ target.info = last.taken.info
                /\ target.follows = 0
                /\ target.redirect_of = Ref(last.taken)
                /\ ~last.parsed
                /\ last.offered = <<>>
                /\ known_urls = last.known_before)
      /\ (last.taken.redirect_of # None =>
            IF last.taken.url \in last.known_before
            THEN last.events = <<SkippedDuplicate>> /\ ~Called("rules.follow")
            ELSE TimesCalled("rules.follow") =
                    IF last.taken.info.source # "user" THEN 1 ELSE 0)

\* C3: a link that is not a 'user' link was answered by a chain of two
\* redirects.
C3_Witness ==
    /\ Took
    /\ Happened(FailedRedirect)
    /\ last.taken.info.source # "user"
    /\ Len(last.link.response.redirects) = 2

\* C3 as stated: the follow rule is evaluated exactly once for the
\* redirecting link and exactly once for the link of the final target.
C3_Original ==
    Took =>
      /\ (Happened(FailedRedirect) /\ last.taken.info.source # "user"
            => last.link.follows = 1)
      /\ (last.taken.redirect_of # None /\ last.taken.info.source # "user"
            => TimesCalled("rules.follow") = 1)

\* C4 as stated: when the final redirect target of a link has the link's
\* own canonical url, the call emits a 'failed' follow event and queues no
\* new link.
C4_Original ==
    (/\ Answered
     /\ last.link.response.redirects # <<>>
     /\ Canonical(redirect_target(last.link.response)) = last.taken.url)
    => /\ \E i \in DOMAIN last.events :
             last.events[i][1] = "follow" /\ last.events[i][2] = "failed"
       /\ link_queue = last.pending

\* C5 as stated: a link is re-enqueued at most max_retries times, so no
\* link in the queue has been re-enqueued more often.
C5_Original ==
    \A i \in DOMAIN link_queue : link_queue[i].retries <= max_retries

\* C6.  A response with a status of 400 or more, reached without a
\* redirect, ends the link: 'failed: http-error' is its only event, the
\* save rule is not asked, Mirror.add and Mirror.encounter_url are not
\* called, no parser is attached and no link is offered, the url does not
\* become known, the link is not retried and the queue is the one it was
\* taken from.
C6_HttpErrorIsTerminal ==
    (/\ Answered
     /\ last.link.response.redirects = <<>>
     /\ last.link.response.status_code >= 400)
    => /\ last.events = <<FailedHttpError>>
       /\ ~Called("rules.save")
       /\ ~Called("mirror.add")
       /\ ~Called("mirror.encounter_url")
       /\ ~last.parsed
       /\ last.offered = <<>>
       /\ known_urls = last.known_before
       /\ ~last.add_again
       /\ last.link.retries = last.taken.retries
       /\ link_queue = last.pending

\* C6: a link was answered with an error status.
C6_Witness ==
    /\ Answered
    /\ last.link.response.status_code = 404
    /\ last.events = <<FailedHttpError>>

\* C7.  A 304 answer: the response is not saved (the save rule is not
\* asked, Mirror.add is not called), no parser is attached,
\* Mirror.encounter_url is called and the url is marked known; when the
\* stop rule fires nothing is offered to the queue, otherwise exactly the
\* links the mirror has stored for the url are offered, in order, and every
\* link queued has the current link as its previous.
C7_NotModifiedContinuation ==
    (Answered /\ last.link.response.status_code = 304)
    => /\ Happened(FailedNotModified)
       /\ ~Called("rules.save")
       /\ ~Called("mirror.add")
       /\ ~last.parsed
       /\ Called("mirror.encounter_url")
       /\ last.taken.url \in DOMAIN mirror.encountered_urls
       /\ last.taken.url \in known_urls
       /\ PendingKept
       /\ IF Happened(BailTrue)
          THEN last.offered = <<>> /\ Enqueued = <<>>
          ELSE /\ last.offered = mirror.url_info[last.taken.url].links
               /\ \A j \in DOMAIN Enqueued :
                     /\ Enqueued[j].previous = Ref(last.link)
                     /\ \E i \in DOMAIN last.offered :
                           Enqueued[j] = Link(last.offered[i].url,
                                              Ref(last.link),
                                              last.offered[i].opts)

\* C7: a 304 answer after which stored links were queued.
C7_Witness ==
    /\ Answered
    /\ last.link.response.status_code = 304
    /\ Happened(BailFalse)
    /\ last.offered # <<>>
    /\ Enqueued # <<>>

\* Rule i of the list of the last hook call passed its comparison.
Passes(i) ==
    LET test == CLIRules_run_test(verdict.rule_list[i], verdict.link,
                                  verdict.mirror)
    IN  test.raised = "none" /\ test.passes

\* C8.  A rule evaluation that ends without an exception returns the
\* action of the first hard rule (++ / --) that passes if there is one,
\* otherwise the action of the last rule that passes, otherwise False.
C8_RuleEvaluation ==
    (verdict # None /\ verdict.raised = "none") =>
        LET rule_list == verdict.rule_list
            passing == {i \in DOMAIN rule_list : Passes(i)}
            hard == {i \in passing : rule_list[i].is_stop_action}
            first == CHOOSE i \in hard : \A j \in hard : i <= j
            final == CHOOSE i \in passing : \A j \in passing : j <= i
        IN  verdict.result =
                IF hard # {} THEN rule_list[first].action
                ELSE IF passing # {} THEN rule_list[final].action
                ELSE FALSE

\* C8: the rules ['-', '++requisite'] allow a requisite of a saved page.
C8_Witness ==
    /\ verdict # None
    /\ verdict.hook = "follow"
    /\ arguments.follow = << <<"-">>, <<"+", "+">> \o Str_requisite >>
    /\ verdict.link = RequisiteLink
    /\ verdict.raised = "none"
    /\ verdict.result = TRUE

\* C9 as stated, on its own example: with the follow rules
\* ['-', '+size>1m'] and a link whose url answers with a redirect, no
\* exception leaves the rule evaluation and the result is True.
C9_Original ==
    (/\ verdict # None
     /\ verdict.hook = "follow"
     /\ arguments.follow = << <<"-">>, <<"+">> \o Str_size \o <<">", "1", "m">> >>
     /\ web[verdict.link.url].status \in {301, 302})
    => (verdict.raised = "none" /\ verdict.result = TRUE)

\* The test name of a rule string that begins with '+' or '-': what
\* follows the prefix, up to the first operator character.
TestName(rule) ==
    LET hard == Len(rule) >= 2 /\ rule[2] = rule[1]
        body == SubSeq(rule, IF hard THEN 3 ELSE 2, Len(rule))
    IN  SubSeq(body, 1, run_length(body, {"<", ">", "=", "~"}, FALSE))

\* A rule string that does not begin with '+' or '-', or that names a
\* test that is not registered.
BadRule(rule) ==
    \/ rule = <<>>
    \/ rule[1] \notin {"+", "-"}
    \/ TestName(rule) \notin DOMAIN AvailableTests

\* The rule strings of the command line.
GivenRules ==
    {arguments.follow[i] : i \in DOMAIN arguments.follow}
        \cup {arguments.save[i] : i \in DOMAIN arguments.save}
        \cup {arguments.stop[i] : i \in DOMAIN arguments.stop}

\* C10 as stated: with a bad rule string among the follow, save and stop
\* rules, building the rules fails with a rule error, no seed is queued,
\* no link is processed and no request is sent.
C10_Original ==
    (arguments # None /\ \E rule \in GivenRules : BadRule(rule))
    => /\ pc = "rule-error"
       /\ rules = None
       /\ link_queue = <<>>
       /\ last.taken = None
       /\ \A e \in Endpoints : requests[e] = 0

\* C11 as stated, on the rule '+depth!=1': the rules are built, and the
\* rule parses to the test depth with the operator '!=' and the value '1'.
C11_Original ==
    (/\ arguments # None
     /\ arguments.follow = << <<"+">> \o Str_depth \o <<"!", "=", "1">> >>)
    => /\ pc # "rule-error"
       /\ rules # None
       /\ rules.follow_rules[1].test = AvailableTests[Str_depth]
       /\ rules.follow_rules[1].op = <<"!", "=">>
       /\ rules.follow_rules[1].value = <<"1">>

\* The operands of the last operator call.
Operand == arguments.sys
RuleValue == arguments.user

\* The pairs (string, pattern) among the operands where the glob pattern
\* matches the string, written out: '*' matches any run of characters,
\* '?' one character, any other character itself.
GlobMatches ==
    { << <<>>, <<>> >>, << <<>>, <<"*">> >>,
      << <<"f", "o", "o">>, <<"f", "o", "o">> >>,
      << <<"f", "o", "o">>, <<"*", "o">> >>,
      << <<"f", "o", "o">>, <<"f", "?", "o">> >>,
      << <<"f", "o", "o">>, <<"*">> >>,
      << <<"a", "b", "c">>, <<"a", "b", "c">> >>,
      << <<"a", "b", "c">>, <<"*">> >>,
      << <<"1">>, <<"1">> >>, << <<"1">>, <<"*">> >> }

\* The rule values among the operands that are numeric, with the number
\* each stands for; K, M and G in either case multiply by 1000, 1000000
\* and 1000000000.
RuleNumbers ==
    { << <<"0">>, 0 >>, << <<"1">>, 1 >>, << <<"2">>, 2 >>, << <<"4">>, 4 >>,
      << <<"1", "0", "0", "0">>, 1000 >>,
      << <<"1", "K">>, 1000 >>, << <<"1", "k">>, 1000 >>,
      << <<"1", "M">>, 1000000 >>, << <<"1", "m">>, 1000000 >>,
      << <<"1", "G">>, 1000000000 >> }

Numeric(user) == \E pair \in RuleNumbers : pair[1] = user
NumberOf(user) == (CHOOSE pair \in RuleNumbers : pair[1] = user)[2]

\* False or None
Null(sys) == sys.type = "NoneType" \/ (sys.type = "bool" /\ sys.value = FALSE)

\* C12 as stated: equality of two strings is the glob match; otherwise
\* the rule value is normalised to a number, a rule value that is not
\* numeric counting as False, and the comparison passes iff both sides
\* are False or None, or neither is and the numbers are equal.
C12_Original ==
    (verdict # None /\ verdict.op = "equality") =>
        /\ verdict.raised = "none"
        /\ verdict.passes <=>
              IF Operand.type = "str"
              THEN <<Operand.value, RuleValue>> \in GlobMatches
              ELSE IF Null(Operand) \/ ~Numeric(RuleValue)
              THEN Null(Operand) /\ ~Numeric(RuleValue)
              ELSE as_number(Operand) = NumberOf(RuleValue)

\* a <op> b for the ordered comparison named op
Compares(op, a, b) ==
    CASE op = "smaller" -> a < b
      [] op = "larger" -> a > b
      [] op = "smaller_or_equal" -> a <= b
      [] op = "larger_or_equal" -> a >= b

\* C13 as stated: an ordered comparison of a numeric test result compares
\* it with the number the rule value stands for, K, M and G in either
\* case multiplying by 1000, 1000000 and 1000000000; it never matches a
\* rule value that is not numeric.
C13_Original ==
    (/\ verdict # None
     /\ verdict.op \in {"smaller", "larger", "smaller_or_equal",
                        "larger_or_equal"}
     /\ is_number(Operand))
    => /\ verdict.raised = "none"
       /\ ~Numeric(RuleValue) => ~verdict.passes
       /\ (Numeric(RuleValue) /\ ~Null(Operand)) =>
             (verdict.passes <=>
                  Compares(verdict.op, as_number(Operand), NumberOf(RuleValue)))

\* The follow rules end with '++requisite' and have nothing but '-'
\* before it: the verdict is the result of the requisite test.
RequisiteDecides ==
    LET follow == arguments.follow
    IN  /\ follow[Len(follow)] = <<"+", "+">> \o Str_requisite
        /\ \A i \in 1..(Len(follow) - 1) : follow[i] = <<"-">>

\* C14.  The requisite test passes for a link iff the link is inline, has
\* a previous link, and the url of the previous link is among the urls the
\* mirror has encountered in this run when the rule is evaluated; a file
\* stored by an earlier run does not count.
C14_Requisite ==
    (verdict # None /\ verdict.hook = "follow" /\ RequisiteDecides) =>
        /\ verdict.raised = "none"
        /\ verdict.result <=>
              /\ verdict.link.info.inline
              /\ verdict.link.previous # None
              /\ verdict.link.previous.url
                     \in DOMAIN verdict.mirror.encountered_urls

\* C14: a requisite of the seed page is followed once the page was saved
\* in this run.
C14_Witness ==
    /\ verdict # None
    /\ verdict.hook = "follow"
    /\ RequisiteDecides
    /\ verdict.link = RequisiteLink
    /\ verdict.mirror = mirror
    /\ SeedLink.url \in DOMAIN mirror.encountered_urls
    /\ verdict.result

\* C15.  Whatever methods of the mirror are called, in whatever order,
\* every url that encountered_urls holds is a key of stored_urls; and
\* encounter_url for a url without a stored file registers nothing.
C15_EncounteredIsStored ==
    /\ DOMAIN mirror.encountered_urls \subseteq DOMAIN mirror.stored_urls
    /\ (last.op = "encounter_url"
            /\ last.url \notin DOMAIN last.before.stored_urls)
       => /\ mirror.raised = "AssertionError"
          /\ mirror.encountered_urls = last.before.encountered_urls

\* C15: delete_unencountered has removed the url of an earlier run from
\* the mirror while the urls encountered in this run have stayed.
C15_Witness ==
    /\ last.op = "delete_unencountered"
    /\ DOMAIN mirror.stored_urls # DOMAIN last.before.stored_urls
    /\ mirror.encountered_urls # EmptyDict

\* The file the mirror m holds for the page: Mirror.get_filename
FileOf(page) == <<netloc(Http(page)), page, ".htm">>

\* C16.  With write_at_once, Mirror.add for the url B leaves every file
\* as it was, except the file of B and the files of the urls in
\* url_usage[B] that were encountered in this run.
C16_OnlyReferrersReprocessed ==
    (last.op = "add" /\ last.before.write_at_once) =>
        LET B == last.url
            reprocessed ==
                {mirror.encountered_urls[u] :
                    u \in ({B} \cup Get(mirror.url_usage, B, {}))
                              \cap DOMAIN mirror.encountered_urls}
        IN  \A file \in DOMAIN last.before.files \ reprocessed :
                /\ file \in DOMAIN mirror.files
                /\ mirror.files[file] = last.before.files[file]

\* C16: page b is added while a and c are in the mirror; the file of a,
\* a referrer of b, was rewritten, and the file of c, whose link to b is
\* indexed under its https form, was not.
C16_Witness ==
    /\ last.op = "add"
    /\ last.url = Http("b")
    /\ last.before.write_at_once
    /\ {Http("a"), Http("c")} \subseteq DOMAIN last.before.encountered_urls
    /\ Http("a") \in mirror.url_usage[Http("b")]
    /\ Http("c") \notin mirror.url_usage[Http("b")]
    /\ mirror.files[FileOf("a")] # last.before.files[FileOf("a")]
    /\ mirror.files[FileOf("c")] = last.before.files[FileOf("c")]
    /\ ~mirror.files[FileOf("c")][1].local

\* The i-th link of the page stored for url, as the page was served.
Authored(url, i) == mirror.url_info[url].links[i].url

\* A pass over every encountered file has just ended: finish returned,
\* in a mirror that converts links.
Converted ==
    /\ last.op = "finish"
    /\ mirror.convert_links
    /\ mirror.raised = "none"

\* C17 as stated: after the conversion, every link of a mirrored file
\* whose canonical url was encountered in this run reads './' and the
\* relative path from the file's directory to the target's file, with
\* '#' and the fragment the link carried, be the link http or https.
C17_Original ==
    Converted =>
        \A url \in DOMAIN mirror.encountered_urls :
            \A i \in DOMAIN mirror.files[mirror.encountered_urls[url]] :
                LET file == mirror.encountered_urls[url]
                    target == Canonical(Authored(url, i))
                IN  target \in DOMAIN mirror.encountered_urls =>
                        mirror.files[file][i] =
                            LocalLink(relpath(mirror.encountered_urls[target],
                                              file[1]),
                                      Authored(url, i).frag)

\* The link i of the page stored for url points to a url that is not
\* stored itself and has a recorded redirect whose target was encountered.
RedirectsToStored(url, i) ==
    LET target == Canonical(Authored(url, i))
    IN  /\ target \notin DOMAIN mirror.stored_urls
        /\ target \in DOMAIN mirror.redirects
        /\ mirror.redirects[target][2] \in DOMAIN mirror.encountered_urls

\* C18.  After the conversion, a link to a url that was never stored but
\* has a recorded redirect whose target is in the mirror reads the local
\* relative path of the file of the redirect's target.
C18_RedirectResolvesToTarget ==
    Converted =>
        \A url \in DOMAIN mirror.encountered_urls :
            \A i \in DOMAIN mirror.files[mirror.encountered_urls[url]] :
                LET file == mirror.encountered_urls[url]
                    redir_url == mirror.redirects[Canonical(Authored(url, i))][2]
                IN  RedirectsToStored(url, i) =>
                        /\ mirror.files[file][i].local
                        /\ mirror.files[file][i].path =
                              relpath(mirror.encountered_urls[redir_url], file[1])

\* C18: b answers with a 302 redirect to c, c is in the mirror, and the
\* plain link to b in the file of a reads ./../example.de/c.htm.
C18_Witness ==
    /\ Converted
    /\ Http("a") \in DOMAIN mirror.encountered_urls
    /\ mirror.url_info[Http("a")].links = MirrorPages["a"]
    /\ Authored(Http("a"), 3) = Http("b")
    /\ RedirectsToStored(Http("a"), 3)
    /\ mirror.redirects[Http("b")][1] = 302
    /\ mirror.files[FileOf("a")][3] =
          LocalLink(<<"..", "example.de", "c", ".htm">>, "")

\* The link i of the page stored for url points to a url that is not in
\* the mirror and has a recorded redirect whose target is not in the
\* mirror either.
RedirectsOutside(url, i) ==
    LET target == Canonical(Authored(url, i))
    IN  /\ target \notin DOMAIN mirror.encountered_urls
        /\ target \in DOMAIN mirror.redirects
        /\ mirror.redirects[target][2] \notin DOMAIN mirror.encountered_urls

\* C19 as stated: after the conversion, a link to a redirect whose target
\* is not in the mirror reads the absolute url of the redirect's target
\* if the status recorded is 301, and the absolute url it was written
\* with for any other status.
C19_Original ==
    Converted =>
        \A url \in DOMAIN mirror.encountered_urls :
            \A i \in DOMAIN mirror.files[mirror.encountered_urls[url]] :
                LET file == mirror.encountered_urls[url]
                    redir == mirror.redirects[Canonical(Authored(url, i))]
                IN  RedirectsOutside(url, i) =>
                        mirror.files[file][i] =
                            IF redir[1] = 301 THEN Absolute(redir[2])
                            ELSE Absolute(Authored(url, i))

\* The link i of the page stored for url points to a url that is not in
\* the mirror and has a recorded redirect.
KnownRedirect(url, i) ==
    LET target == Canonical(Authored(url, i))
    IN  /\ target \notin DOMAIN mirror.encountered_urls
        /\ target \in DOMAIN mirror.redirects

\* C20 as stated: after the conversion, a link to a known redirect reads
\* a local path only if the redirect is permanent (301) and its target is
\* in the mirror, and a link to a known redirect that is not permanent
\* reads the absolute url it was written with.
C20_Original ==
    Converted =>
        \A url \in DOMAIN mirror.encountered_urls :
            \A i \in DOMAIN mirror.files[mirror.encountered_urls[url]] :
                LET href == mirror.files[mirror.encountered_urls[url]][i]
                    redir == mirror.redirects[Canonical(Authored(url, i))]
                IN  KnownRedirect(url, i) =>
                        /\ href.local =>
                              /\ redir[1] = 301
                              /\ redir[2] \in DOMAIN mirror.encountered_urls
                        /\ redir[1] # 301 =>
                              href = Absolute(Authored(url, i))

\* C20.  After the conversion, a link to a known redirect reads the local
\* path of the file of the redirect's target exactly if that target is in
\* the mirror, be the redirect permanent or not; and a link to a redirect
\* that is not permanent and whose target is not in the mirror never reads
\* the redirect's target: it reads the url it was written with or that
\* url normalised.
C20_RedirectPolicy ==
    Converted =>
        \A url \in DOMAIN mirror.encountered_urls :
            \A i \in DOMAIN mirror.files[mirror.encountered_urls[url]] :
                LET file == mirror.encountered_urls[url]
                    href == mirror.files[file][i]
                    redir == mirror.redirects[Canonical(Authored(url, i))]
                IN  KnownRedirect(url, i) =>
                        IF redir[2] \in DOMAIN mirror.encountered_urls
                        THEN /\ href.local
                             /\ href.path =
                                   relpath(mirror.encountered_urls[redir[2]],
                                           file[1])
                        ELSE /\ ~href.local
                             /\ redir[1] # 301 =>
                                   href \in {Absolute(Authored(url, i)),
                                             Absolute(Canonical(Authored(url, i)))}

\* C20: b answers with a 302 redirect to c, c is in the mirror, and the
\* link to b written with a fragment in the file of a reads
\* ./../example.de/c.htm#f.
C20_Witness ==
    /\ Converted
    /\ Http("a") \in DOMAIN mirror.encountered_urls
    /\ mirror.url_info[Http("a")].links = MirrorPages["a"]
    /\ Authored(Http("a"), 1) = [Http("b") EXCEPT !.frag = "f"]
    /\ KnownRedirect(Http("a"), 1)
    /\ mirror.redirects[Http("b")] = <<302, Http("c")>>
    /\ Http("c") \in DOMAIN mirror.encountered_urls
    /\ mirror.files[FileOf("a")][1] =
          LocalLink(<<"..", "example.de", "c", ".htm">>, "f")

\* C21 as stated: when delete_unencountered returns, no url that was not
\* encountered in this run is left in stored_urls or url_info and none of
\* its files is left; every encountered url is stored under exactly the
\* file name encountered_urls holds and that file is still there.
C21_Original ==
    last.op = "delete_unencountered" =>
        /\ mirror.raised = "none"
        /\ \A url \in DOMAIN last.before.stored_urls \ DOMAIN mirror.encountered_urls :
              /\ url \notin DOMAIN mirror.stored_urls
              /\ url \notin DOMAIN mirror.url_info
              /\ last.before.stored_urls[url] \cap DOMAIN mirror.files = {}
        /\ DOMAIN mirror.stored_urls = DOMAIN mirror.encountered_urls
        /\ \A url \in DOMAIN mirror.encountered_urls :
              /\ mirror.stored_urls[url] = {mirror.encountered_urls[url]}
              /\ mirror.encountered_urls[url] \in DOMAIN mirror.files

\* C22 as stated: a url that fails normalisation is never in the queue,
\* and no run is aborted by the InvalidUrl it raises: not while the page
\* that contains it is processed and saved, nor while the links of the
\* stored file are converted.
C22_Original ==
    /\ \A i \in DOMAIN link_queue : ~InvalidUrl(link_queue[i].url)
    /\ ~(pc = "aborted" /\ mirror.raised = "InvalidUrl")

\* C23.  When rules.stop answers true for a link, the call of
\* _process_link offers no link to _add and leaves the queue as it was
\* taken, returns without an exception and without asking for a retry,
\* and what was decided before holds: a page saved is in the mirror and
\* its url known, a page whose save was denied is neither added to the
\* mirror nor marked known, and a url not downloaded again is registered
\* with the mirror and known.
C23_StopEnqueuesNothing ==
    (Took /\ Happened(BailTrue)) =>
        /\ last.offered = <<>>
        /\ link_queue = last.pending
        /\ ~last.raised /\ ~last.add_again
        /\ Called("rules.stop")
        /\ IF Happened(SavedFalse)
           THEN /\ known_urls = last.known_before
                /\ ~Called("mirror.add")
           ELSE /\ known_urls = last.known_before \cup {last.link.url}
                /\ last.link.url \in DOMAIN mirror.encountered_urls
                /\ Happened(SavedTrue) <=> Called("mirror.add")

\* C23: a page with links was saved, the stop rule answered true, and
\* other links were waiting in the queue.
C23_Witness ==
    /\ Took
    /\ Happened(BailTrue)
    /\ Happened(SavedTrue)
    /\ Answered
    /\ last.link.response.links # <<>>
    /\ last.pending # <<>>
    /\ link_queue = last.pending
    /\ last.link.url \in known_urls

\* C24 as stated: under DefaultRules, when the mirror holds a url that
\* was saved from a response with an Expires time in the future,
\* skip_download for a link to that url returns a truthy value, so that
\* the later crawl sends no request for it.
C24_Original ==
    (pc = "asked"
        /\ arguments.link.url \in DOMAIN last.expires
        /\ last.expires[arguments.link.url] = [time |-> "future"])
    => (verdict.raised = "none" /\ verdict.truthy)

\* C25 as stated: for every valid url u, a Link built from Link(u).url
\* has the same canonical url, and a url that differs from u only in its
\* fragment or in http versus https has the same canonical url as u.
C25_Original ==
    pc = "built" => verdict.first = verdict.second

\* Mirror.finish is called in this step: the mirror becomes what finish
\* makes of it, and loop returns or is left by the exception of finish.
FinishIsCalled ==
    /\ mirror' = Mirror_finish(mirror)
    /\ pc' \in {"done", "aborted"}
    /\ UNCHANGED <<link_queue, known_urls, last>>

\* C26.  Spider.loop returns only through one call of Mirror.finish, made
\* when the queue is empty; while links are waiting the only step of loop
\* is process_one on the rightmost link; and once loop has returned or an
\* exception has left it, nothing more is done: no finish after an abort,
\* no second finish.
C26_FinishOnCompletion ==
    [][/\ pc' = "done" => (pc = "loop" /\ link_queue = <<>> /\ FinishIsCalled)
       /\ (pc = "loop" /\ link_queue = <<>>) => FinishIsCalled
       /\ (pc = "loop" /\ link_queue # <<>>) =>
              /\ pc' \in {"loop", "aborted"}
              /\ last'.taken = link_queue[Len(link_queue)]
              /\ pc' = "aborted" <=> last'.raised
       /\ pc \notin {"done", "aborted"}]_vars

\* C26: loop has returned after links were processed and pages saved; the
\* queue is empty and finish has left no exception.
C26_Witness ==
    /\ pc = "done"
    /\ Took
    /\ link_queue = <<>>
    /\ mirror.encountered_urls # EmptyDict
    /\ mirror.raised = "none"

\* C27 as stated: the queue is a stack, so when a call of process_one has
\* put links into a queue in which others were waiting, the waiting ones
\* are at the far end and the new ones at the end links are popped from.
C27_Original ==
    (Took /\ ~last.raised /\ last.pending # <<>>
          /\ Len(link_queue) > Len(last.pending))
    => SubSeq(link_queue, 1, Len(last.pending)) = last.pending

\* C27.  The queue is first in, first out: process_one pops the rightmost
\* link, and the links found on the page, like a link that is tried
\* again, go to the left end, behind every link that was waiting.  Only
\* the link for the target of a redirect is put at the right end, and is
\* the next one popped.
C27_FirstInFirstOut ==
    [][(pc = "loop" /\ link_queue # <<>> /\ pc' = "loop") =>
          LET pending == SubSeq(link_queue, 1, Len(link_queue) - 1)
              n == Len(link_queue') - Len(pending)
              redirected == \E i \in DOMAIN last'.events :
                                last'.events[i] = FailedRedirect
          IN  /\ last'.taken = link_queue[Len(link_queue)]
              /\ n >= 0
              /\ IF redirected
                 THEN /\ link_queue' = pending \o <<link_queue'[Len(link_queue')]>>
                      /\ link_queue'[Len(link_queue')].redirect_of # None
                 ELSE SubSeq(link_queue', n + 1, Len(link_queue')) = pending]_vars

\* C27: a page was processed while another link was waiting; its links
\* were put to the left of the waiting link, which is the next one popped.
C27_Witness ==
    /\ Took
    /\ pc = "loop"
    /\ last.pending # <<>>
    /\ Len(link_queue) > Len(last.pending)
    /\ ~Happened(FailedRedirect)
    /\ link_queue[Len(link_queue)] = last.pending[Len(last.pending)]
    /\ link_queue[1].previous # None

\* The path of the link lies at or below the path of its root: the
\* segments of the root's path, without an empty last one, begin the
\* segments of the link's path.
AtOrBelow(link, root) ==
    LET n == Len(root.path)
        dir == IF root.path[n] = "" THEN SubSeq(root.path, 1, n - 1)
               ELSE root.path
    IN  /\ Len(link.path) >= Len(dir)
        /\ SubSeq(link.path, 1, Len(dir)) = dir

\* C28 as stated: 'down' passes only for a link on the host of its root
\* whose path lies at or below the root's path; never for a link on
\* another host, nor for a sibling path.
C28_Original ==
    (pc = "tested" /\ verdict.op = "down" /\ verdict.value
        /\ arguments.link.root # None)
    => /\ arguments.link.netloc = arguments.link.root.netloc
       /\ AtOrBelow(arguments.link, arguments.link.root)

\* The links the last call of _process_link offered to _add whose
\* canonical url was not known, in the order they were offered.
RECURSIVE Unknown(_)
Unknown(offered) ==
    IF offered = <<>> THEN <<>>
    ELSE LET rest == Unknown(Tail(offered))
             url == Head(offered).url
         IN  IF ~InvalidUrl(url)
                /\ Link(url, None, Head(offered).opts).url \notin known_urls
             THEN <<Link(url, None, Head(offered).opts).url>> \o rest
             ELSE rest

\* The links the last call of process_one put into the queue, the one put
\* first coming first.
PutIntoQueue ==
    LET n == Len(link_queue) - Len(last.pending)
    IN  [i \in 1..n |-> link_queue[n + 1 - i].url]

\* C29.  _add looks at the known urls and not at the queue: of the links of
\* a page, exactly those whose canonical url is not known are put into the
\* queue, whether or not a link with that url is waiting there, and _add
\* returns True exactly for those.
C29_AddConsultsKnown ==
    (Took /\ ~last.raised /\ last.offered # <<>>)
    => /\ Len(link_queue) >= Len(last.pending)
       /\ PutIntoQueue = Unknown(last.offered)
       /\ last.num_links_followed = Len(PutIntoQueue)
       /\ last.num_links_total = Len(last.offered)

\* C29: a link was put into the queue while a link with the same url was
\* waiting there, and another link of the page, known, was refused.
C29_Witness ==
    /\ Took /\ ~last.raised /\ last.offered # <<>>
    /\ Len(link_queue) > Len(last.pending)
    /\ \E i \in DOMAIN last.pending : last.pending[i].url = link_queue[1].url
    /\ Len(PutIntoQueue) < Len(last.offered)

\* The links made for the target of a redirect that are waiting in the
\* queue.
RedirectLinks ==
    {link_queue[i] : i \in {j \in DOMAIN link_queue :
                               link_queue[j].redirect_of # None}}

\* C30 as stated: the link made for the target of a redirect has the
\* previous, the info, the depth and the root of the link that was
\* redirected, also when that link is a seed.
C30_Original ==
    \A l \in RedirectLinks :
        /\ l.previous = l.redirect_of.previous
        /\ l.info = l.redirect_of.info
        /\ l.depth = l.redirect_of.depth
        /\ l.root = l.redirect_of.root

\* C30.  The link made for the target of a redirect has the previous, the
\* info and the depth of the link that was redirected.  It has the same
\* root when that link has a previous link; when that link is a seed, the
\* new link is its own root.  Its domain_depth is derived from its own
\* host and the previous link.
C30_RedirectLinkInherits ==
    \A l \in RedirectLinks :
        /\ l.previous = l.redirect_of.previous
        /\ l.info = l.redirect_of.info
        /\ l.depth = l.redirect_of.depth
        /\ l.previous # None =>
              /\ l.root = l.redirect_of.root
              /\ l.root = l.previous.root
              /\ l.domain_depth =
                    IF netloc(l.original_url) # netloc(l.previous.original_url)
                    THEN 0 ELSE l.previous.domain_depth + 1
        /\ l.previous = None =>
              /\ l.root = l.original_url
              /\ l.redirect_of.root = l.redirect_of.original_url
              /\ l.domain_depth = 0

\* C30: a seed was redirected, and the link made for the target has a root
\* of its own, which is not the seed.
C30_Witness ==
    \E l \in RedirectLinks :
        /\ l.previous = None
        /\ l.depth = 0
        /\ l.root # l.redirect_of.root

\* A link found on a page was redirected; the link made for the target
\* shares its root.
C30_FoundLinkRedirected ==
    \E l \in RedirectLinks : l.previous # None /\ l.root = l.redirect_of.root

\* The last call was a resolve of the given type.
Resolved == verdict # None /\ verdict.op = "resolve"

\* What the link held when resolve was called: the result of a resolution
\* that ended in an error (a connection failure or too many redirects:
\* response is False; an HTTP error status: a response that is not ok).
CachedError ==
    \/ verdict.before.response = False
    \/ /\ verdict.before.response \notin {None, False}
       /\ ~ok(verdict.before.response)

\* C31 as stated: resolve sends a request only when nothing is cached, or
\* when a full response is asked for and a HEAD response is cached; after a
\* resolution that ended in an error, every call returns the cached result
\* without a request.
C31_Original ==
    Resolved =>
        /\ verdict.sent # <<>> =>
              \/ verdict.before.response = None
              \/ /\ verdict.type = "full"
                 /\ verdict.before.response # False
                 /\ verdict.before.response.method = "HEAD"
        /\ CachedError =>
              /\ verdict.sent = <<>>
              /\ ~verdict.raised
              /\ last = verdict.before

\* C31: a HEAD request was answered with an HTTP error status, and the
\* full response asked for next sent a GET request.
C31_ErrorFetchedAgain ==
    /\ Resolved /\ verdict.type = "full" /\ verdict.sent # <<>>
    /\ verdict.before.response \notin {None, False}
    /\ ~ok(verdict.before.response)

\* C31: resolve was called on a link whose resolution ended in too many
\* redirects, and raised.
C31_RaisedOnCachedFalse ==
    /\ Resolved /\ verdict.raised
    /\ verdict.before.response = False /\ ~verdict.before.exception

\* The urls that the links stored for referrer in url_info point to.
LinksOf(m, referrer) ==
    {m.url_info[referrer].links[i].url : i \in DOMAIN m.url_info[referrer].links}

\* url_usage of m is the reverse index of its url_info: r is a referrer of
\* t exactly when the links stored for r hold a link to t.
ReverseIndex(m) ==
    /\ \A t \in DOMAIN m.url_usage : \A r \in m.url_usage[t] :
          r \in DOMAIN m.url_info /\ t \in LinksOf(m, r)
    /\ \A r \in DOMAIN m.url_info : \A t \in LinksOf(m, r) :
          t \in DOMAIN m.url_usage /\ r \in m.url_usage[t]

\* The keys of url_usage are urls that _convert_links looks up when a page
\* is added: response.url, a canonical url.
KeysLookedUp(m) ==
    \A t \in DOMAIN m.url_usage : ~InvalidUrl(t) => t = Canonical(t)

\* C32 as stated: between the operations of the mirror, url_usage is
\* exactly the reverse index of url_info, also after a page is added again
\* with other links, and a target is indexed under the key that is looked
\* up when the target is added.
C32_Original == ReverseIndex(mirror) /\ KeysLookedUp(mirror)

\* C33 as stated: when an exception escapes the processing of a link,
\* finish is not run, and everything Mirror.add and the storing of the
\* command line options changed in stored_urls, url_info and info is on
\* disk.
C33_Original ==
    pc = "aborted" => verdict = Mirror_flush(mirror, rules.info)

\* The last call of _process_link sent a follow-state notification.
FollowStateChanged == \E i \in DOMAIN last.events : last.events[i][1] = "follow"

\* The last link was given up: its connection failed and its retries
\* were used up.
Abandoned ==
    /\ Took /\ last.link.response = False /\ last.link.exception
    /\ ~retries_left(last.link)

\* C34 as stated: a link whose connection failures use up the retries is
\* not put into the queue again, no exception is raised, and a
\* follow-state notification records it; every link taken gets at least
\* one follow-state notification.
C34_Original ==
    /\ Abandoned =>
          /\ ~last.add_again /\ ~last.raised
          /\ link_queue = last.pending
          /\ FollowStateChanged
    /\ (Took /\ ~last.raised) => FollowStateChanged

\* C34: a link was given up without a notification, without an exception
\* and without being put into the queue again.
C34_AbandonedSilently ==
    /\ Abandoned /\ ~last.add_again /\ ~last.raised
    /\ link_queue = last.pending
    /\ last.events = <<>>

\* The files the last call of the mirror ran a conversion pass over:
\* finish converts the file of every encountered url, add, when links are
\* written at once, the file of the url it stored.
JustConverted ==
    IF mirror.raised # "none" \/ ~mirror.convert_links THEN {}
    ELSE IF last.op = "finish"
    THEN {mirror.encountered_urls[u] : u \in DOMAIN mirror.encountered_urls}
    ELSE IF last.op = "add" /\ mirror.write_at_once
    THEN {mirror.encountered_urls[last.url]}
    ELSE {}

\* C35 as stated: a conversion pass over a file that a pass has converted,
\* with the same encountered_urls, redirects and url_usage (finish changes
\* none of them), leaves the file as it is.
C35_Original ==
    [][last'.op = "finish"
           => \A f \in JustConverted : mirror'.files[f] = mirror.files[f]]_vars

\* C35: the pass of finish found a link that an earlier pass had made
\* local, and wrote an absolute url over it.
C35_MangledAgain ==
    /\ last.op = "finish"
    /\ last.before.raised = "none"
    /\ \E f \in DOMAIN mirror.files \cap DOMAIN last.before.files :
          \E i \in DOMAIN mirror.files[f] :
              /\ i \in DOMAIN last.before.files[f]
              /\ last.before.files[f][i].local
              /\ ~mirror.files[f][i].local

\* The events of a processing that leaves its url unknown: the link is
\* not followed, or its request ends in an error or a redirect, or the
\* save rules deny the page.
LeavesUnknown(events) ==
    \E i \in DOMAIN events :
        \/ events[i][1] = "follow" /\ events[i][2] = "skipped"
        \/ /\ events[i][1] = "follow" /\ events[i][2] = "failed"
           /\ events[i][3] \in {"http-error", "redirect", "redirect-error",
                                "connect-error"}
        \/ events[i] = <<"save", "saved", "false">>

\* C36.  Every known url is a key of the mirror's encountered_urls.  The
\* known set only grows, by the url of the link just processed, and only
\* when that processing called Mirror.add or Mirror.encounter_url for it:
\* never after do-not-follow, a rule denial, an HTTP error, a redirect, a
\* connection failure or a denied save.
C36_KnownIsEncountered ==
    /\ [](known_urls \subseteq DOMAIN mirror.encountered_urls)
    /\ [][/\ known_urls \subseteq known_urls'
          /\ \A u \in known_urls' \ known_urls :
                /\ u = last'.taken.url
                /\ \E i \in DOMAIN last'.calls :
                      last'.calls[i] \in {"mirror.add", "mirror.encounter_url"}
                /\ ~LeavesUnknown(last'.events)]_vars

\* C36: a url was saved and is known; the url processed last, answered
\* with 304, was registered with encounter_url and is known as well.
C36_Witness ==
    /\ Took
    /\ \E u \in last.known_before : u # last.taken.url
    /\ last.taken.url \in known_urls \ last.known_before
    /\ Called("mirror.encounter_url")
    /\ known_urls \subseteq DOMAIN mirror.encountered_urls

\* C37 as stated: over a finite web without connection failures, whatever
\* the follow, save and stop rules answer, loop() comes to an empty queue
\* and returns (or an exception leaves it).
C37_Original == <>(pc \in {"done", "aborted"})

\* C38: within one run Mirror.add is called at most once for a canonical
\* url: the call is made at most once per step of process_one, only for a url
\* that is not yet in the known set, and it puts the url into the known
\* set, which never shrinks, unless the call raises and ends the run.
C38_AddAtMostOnce ==
    [][/\ known_urls \subseteq known_urls'
       /\ (pc = "loop" /\ last' # last /\ Called("mirror.add")') =>
            /\ TimesCalled("mirror.add")' = 1
            /\ last'.taken.url \notin known_urls
            /\ \/ last'.taken.url \in known_urls'
               \/ last'.raised /\ pc' = "aborted"]_vars

\* A second queue entry for a url that this run has stored is skipped as a
\* duplicate.
C38_Witness ==
    /\ Took
    /\ Happened(SkippedDuplicate)
    /\ ~Called("mirror.add")
    /\ last.taken.url \in known_urls
    /\ last.taken.url \in DOMAIN mirror.encountered_urls
    /\ last.taken.url \in DOMAIN mirror.stored_urls

\* C39: two different urls stored in the same run never get the same
\* file name: encountered_urls is injective, and Mirror.add never writes
\* the file of another stored url.
C39_Original ==
    /\ \A u, v \in DOMAIN mirror.encountered_urls :
          u # v => mirror.encountered_urls[u] # mirror.encountered_urls[v]
    /\ \A u, v \in DOMAIN mirror.stored_urls :
          u # v => mirror.stored_urls[u] \cap mirror.stored_urls[v] = {}

\* The two urls that share a file name were both stored by Mirror.add in
\* this run, the second call writing the file of the first.
C39_SharedFileName ==
    /\ pc = "names"
    /\ last.op = "add"
    /\ \E u \in DOMAIN last.before.encountered_urls :
          /\ u # last.url
          /\ u \in known_urls
          /\ last.before.encountered_urls[u] = mirror.encountered_urls[last.url]

\* C40: the link made for the target of a redirect carries the info of
\* the link that was redirected.  For a seed of source 'user' the follow
\* rules are not asked about the target and it goes on to the download
\* (unless it is a duplicate or the rules skip the download); for a link
\* of another source the target is requested only after the follow rules
\* were asked and allowed it.
C40_RedirectOfSeedIsUser ==
    (Took /\ last.taken.redirect_of # None) =>
        /\ last.taken.info = last.taken.redirect_of.info
        /\ last.taken.redirect_of.info.source = "user" =>
              /\ last.taken.info.source = "user"
              /\ ~Called("rules.follow")
              /\ ~Happened(<<"follow", "skipped", "rule-deny">>)
              /\ \/ Called("link.resolve")
                 \/ Happened(<<"follow", "skipped", "no-download">>)
                 \/ Happened(<<"follow", "skipped", "duplicate">>)
                 \/ Happened(<<"follow", "failed", "not-expired">>)
        /\ last.taken.redirect_of.info.source # "user" =>
              /\ Happened(<<"follow", "skipped", "rule-deny">>)
                    => ~Called("link.resolve")
              /\ Called("link.resolve") => Called("rules.follow")

\* The target of a redirected user seed has been requested without the
\* follow rules being asked.
C40_Witness ==
    /\ Took
    /\ last.taken.redirect_of # None
    /\ last.taken.redirect_of.previous = None
    /\ last.taken.info.source = "user"
    /\ Called("link.resolve")
    /\ ~Called("rules.follow")
    /\ last.sent # <<>>

\* The target of a redirected link of another source has been denied by
\* the follow rules and was not requested.
C40_TargetDenied ==
    /\ Took
    /\ last.taken.redirect_of # None
    /\ last.taken.info.source # "user"
    /\ Happened(<<"follow", "skipped", "rule-deny">>)
    /\ last.sent = <<>>

====
